---- MODULE Spec2Model ----
(***************************************************************************)
(* Save-sync clients of pepasjc/3ds_sync: the 3DS client (src/client) and  *)
(* the DS client (src/ds).  The model covers the sync state store, the     *)
(* reconciliation decision, the single-title upload and download, the      *)
(* batch sync of both clients and the bundle format (bundle.c).            *)
(*                                                                         *)
(* Data.  A save is a sequence of files; a file is its data, a sequence of *)
(* bytes.  A hex hash string is a sequence of integers: <<>> is the empty  *)
(* string, ZERO_HASH the string of 64 zeros, "N/A" the 3DS placeholder and *)
(* sha256_hex(b) the digest of the bytes b (injective: SHA-256 is taken to *)
(* be collision free).  The HTTP server, the SD card and the cartridge are *)
(* the environment: every call into them draws its outcome from a set.     *)
(***************************************************************************)
EXTENDS Integers, Sequences, FiniteSets, TLC

\* ------------------------------------------------------------------ bounds
MaxTitles == 2      \* longest local title list
CartSize == 2       \* bytes of the save chip on the inserted cartridge

\* ------------------------------------------------------- program constants
MAX_TITLES == 256
MAX_CONFLICT_DISPLAY == 8
MAX_UPLOAD_SIZE == 458752
MAX_POST_SIZE == 458752
PAD_BYTE == 255

\* ------------------------------------------------------------ hash strings
EMPTY_STR == <<>>
ZERO_HASH == <<0>>
NA_HASH == <<-1>>

sha256_hex(bytes) == <<1>> \o bytes

RECURSIVE Concat(_)
Concat(files) ==
    IF files = <<>> THEN <<>> ELSE Head(files) \o Concat(Tail(files))

\* sha256.h: the context holds what was fed to it; the digest is idealised
\* (no collisions), so the final value stands for the whole message fed
sha256_init == <<>>
sha256_update(ctx, data, len) == ctx \o SubSeq(data, 1, len)
sha256_final(ctx) == ctx

\* the loop of bundle_compute_save_hash with a fresh context for every file
RECURSIVE sha256_feed_restarting(_, _)
sha256_feed_restarting(ctx, files) ==
    IF files = <<>> THEN ctx
    ELSE sha256_feed_restarting(
             sha256_update(sha256_init, Head(files), Len(Head(files))), Tail(files))

\* the loop of bundle_compute_save_hash: one update per file, in order.  A
\* file is held here as its size bytes of data.
RECURSIVE sha256_feed(_, _)
sha256_feed(ctx, files) ==
    IF files = <<>> THEN ctx
    ELSE sha256_feed(sha256_update(ctx, Head(files), Len(Head(files))), Tail(files))

\* bundle_compute_save_hash: init, the update loop, final, then 64 hex digits
\* (the hex text of digest x is <<1>> \o x, as in sha256_hex)
bundle_compute_save_hash(files) ==
    <<1>> \o sha256_final(sha256_feed(sha256_init, files))

\* --------------------------------------------------------------- variables
VARIABLES
    client,       \* "3ds" or "ds": which client runs on this console
    titles,       \* 3DS: the TitleInfo list of the last scan
    state,        \* DS: SyncState.titles
    local,        \* title id -> the save on local storage (its files)
    store,        \* title id -> contents of state/{TITLE_ID_HEX}.txt
    server,       \* title id -> {} or {the save the server holds}
    pc,           \* position of the running operation
    i,            \* loop index of the running batch phase
    hash_cache,   \* 3DS sync_all: hash computed per title in the hashing phase
    json,         \* 3DS sync_all: title entries of the POST /sync body
    plan,         \* 3DS sync_all: the response text received, a token sequence
    arr,          \* json_parse_string_array: cursor into plan
    ids,          \* 3DS sync_all: the five parsed id lists
    summary,      \* SyncSummary
    ret,          \* what the operation returned ("-" while none has)
    log,          \* history: the storage reads and transfers, in order
    last,         \* history: what the latest transfer did
    details,      \* inputs of the reconciliation decision
    action,       \* its result
    arg,          \* bundle codec: the arguments of the call under study
    wire,         \* bundle codec: the bundle bytes at hand
    out           \* bundle codec: what bundle_parse returned

syncVars == <<client, titles, state, local, store, server, pc, i, hash_cache,
              json, plan, arr, ids, summary, ret, log, last>>
decideVars == <<details, action>>
codecVars == <<arg, wire, out>>
vars == <<syncVars, decideVars, codecVars>>

\* the codec variables while no bundle is under study
NoArg == [op |-> "-"]
NoWire == [ready |-> FALSE, bytes |-> <<>>]
NoOut == [fate |-> "-"]

\* --------------------------------------------------------- sync state store
\* load_last_synced_hash / sync_load_last_hash: the hash only if the file
\* holds 64 hex characters
load_last_synced_hash(st, id) ==
    [ok |-> st[id] # EMPTY_STR, hash |-> st[id]]

\* save_last_synced_hash / sync_save_last_hash; w is what the file system
\* does: "ok", "open_fail" (fopen fails) or "short" (fwrite stops early)
StoreEnv == {"ok", "open_fail", "short"}

save_last_synced_hash(st, id, hash, w) ==
    CASE w = "ok" -> [st EXCEPT ![id] = hash]
      [] w = "open_fail" -> st
      [] OTHER -> [st EXCEPT ![id] = EMPTY_STR]

\* ------------------------------------------------------ 3DS media adapters
IsCart(t) == t.is_nds /\ t.media_type = "GAME_CARD"

\* nds_cart_write_save: the first file padded with 0xFF or cut to chip size
cart_image(data) ==
    [n \in 1..CartSize |-> IF n <= Len(data) THEN data[n] ELSE PAD_BYTE]

\* nds_cart_read_save, nds_read_save, archive_read as dispatched on the
\* title; r is "ok" or "fail" (detect/open/read error).  fc < 0 is failure.
read_save(t, loc, r) ==
    IF IsCart(t) THEN
        IF r = "fail" THEN [fc |-> -1, files |-> <<>>]
        ELSE [fc |-> 1, files |-> <<loc[t.title_id_hex][1]>>]
    ELSE IF t.is_nds THEN
        IF r = "fail" \/ loc[t.title_id_hex] = <<>>
                      \/ Len(loc[t.title_id_hex][1]) <= 0
        THEN [fc |-> -1, files |-> <<>>]
        ELSE [fc |-> 1, files |-> <<loc[t.title_id_hex][1]>>]
    ELSE
        IF r = "fail" THEN [fc |-> -1, files |-> <<>>]
        ELSE [fc |-> Len(loc[t.title_id_hex]), files |-> loc[t.title_id_hex]]

\* nds_cart_write_save, nds_write_save, archive_write as dispatched on the
\* title.  w: "ok", "open_fail" (detect/fopen/open error), "write_fail",
\* "commit_fail" (archive only).  Result: what the call returns and what
\* the medium holds afterwards.
WriteEnv == {"ok", "open_fail", "write_fail", "commit_fail"}

nds_cart_write_save(old, files, w) ==
    IF Len(files) < 1 \/ w = "open_fail"
    THEN [ok |-> FALSE, now |-> old, step |-> "write"]
    ELSE IF w = "write_fail" THEN [ok |-> FALSE, now |-> old, step |-> "write"]
    ELSE [ok |-> TRUE, now |-> <<cart_image(files[1])>>, step |-> "none"]

nds_write_save(old, files, w) ==
    IF Len(files) < 1 \/ w = "open_fail"
    THEN [ok |-> FALSE, now |-> old, step |-> "write"]
    ELSE IF w = "write_fail" THEN [ok |-> FALSE, now |-> <<>>, step |-> "write"]
    ELSE [ok |-> TRUE, now |-> <<files[1]>>, step |-> "none"]

\* archive_write: the result of the commit call is not looked at
archive_write(old, files, w) ==
    IF w = "open_fail" THEN [ok |-> FALSE, now |-> old, step |-> "write"]
    ELSE IF w = "write_fail" /\ Len(files) > 0
    THEN [ok |-> FALSE, now |-> <<>>, step |-> "write"]
    ELSE IF w = "commit_fail" THEN [ok |-> TRUE, now |-> old, step |-> "commit"]
    ELSE [ok |-> TRUE, now |-> files, step |-> "none"]

write_save(t, old, files, w) ==
    IF IsCart(t) THEN nds_cart_write_save(old, files, w)
    ELSE IF t.is_nds THEN nds_write_save(old, files, w)
    ELSE archive_write(old, files, w)

\* ------------------------------------------------ 3DS single-title transfer
\* What the environment does to one upload: the outcome of each step.  A
\* step after the one that ends the operation is not reached, so its
\* outcome is left at "works".
UpEnv ==
    {e \in [read : {"ok", "fail"},
            bundle_size : {0, MAX_UPLOAD_SIZE, MAX_UPLOAD_SIZE + 1},
            net : {"ok", "fail"}, status : {200, 500}, st : StoreEnv] :
        /\ e.read = "fail" => e.bundle_size = MAX_UPLOAD_SIZE
        /\ (e.read = "fail" \/ e.bundle_size # MAX_UPLOAD_SIZE) => e.net = "ok"
        /\ (e.read = "fail" \/ e.bundle_size # MAX_UPLOAD_SIZE \/ e.net = "fail")
               => e.status = 200
        /\ (e.read = "fail" \/ e.bundle_size # MAX_UPLOAD_SIZE \/ e.net = "fail"
                \/ e.status # 200) => e.st = "ok"}

\* the same for one download
DownEnv ==
    {e \in [net : {"ok", "fail"}, status : {200, 500}, parse : {"ok", "bad"},
            write : WriteEnv, st : StoreEnv] :
        /\ e.net = "fail" => e.status = 200
        /\ (e.net = "fail" \/ e.status # 200) => e.parse = "ok"
        /\ (e.net = "fail" \/ e.status # 200 \/ e.parse = "bad") => e.write = "ok"
        /\ (e.net = "fail" \/ e.status # 200 \/ e.parse = "bad"
                \/ e.write \in {"open_fail", "write_fail"}) => e.st = "ok"}

\* the bundle built and the body posted by one transfer (-1: none)
IO(bundle, post) == [bundle |-> bundle, post |-> post]

\* network_post: NULL for a body over MAX_POST_SIZE, with nothing sent, and
\* for a request that fails; else the response with its status
network_post(body_size, net, status) ==
    IF body_size > MAX_POST_SIZE THEN [resp |-> FALSE, status |-> 0]
    ELSE IF net = "fail" THEN [resp |-> FALSE, status |-> 0]
    ELSE [resp |-> TRUE, status |-> status]

\* What one transfer did: res is the SyncResult, step the step that failed
\* ("none" if none did), data the bytes that went over (uploaded, or written
\* to the medium), moved whether any did, bundle the size of the bundle
\* built and post the size of the body handed to network_post (-1: none).
Outcome(res, step, st, srv, loc, data, moved, read, io) ==
    [res |-> res, step |-> step, store |-> st, server |-> srv, local |-> loc,
     data |-> data, moved |-> moved, read |-> read,
     bundle |-> io.bundle, post |-> io.post]

\* upload_title_with_hash without the test of the HTTP status
upload_title_any_status(t, save_hash, st, srv, loc, e) ==
    LET id == t.title_id_hex
        rd == read_save(t, loc, e.read)
        np == network_post(e.bundle_size, e.net, e.status)
        hash_to_save == IF save_hash = EMPTY_STR
                        THEN bundle_compute_save_hash(rd.files)
                        ELSE save_hash
    IN  IF rd.fc < 0 THEN
            Outcome("SYNC_ERR_ARCHIVE", "read", st, srv, loc, <<>>, FALSE, TRUE,
                    IO(-1, -1))
        ELSE IF rd.fc = 0 THEN
            Outcome("SYNC_OK", "none", st, srv, loc, <<>>, FALSE, TRUE, IO(-1, -1))
        ELSE IF e.bundle_size = 0 THEN
            Outcome("SYNC_ERR_BUNDLE", "bundle", st, srv, loc, <<>>, FALSE, TRUE,
                    IO(0, -1))
        ELSE IF e.bundle_size > MAX_UPLOAD_SIZE THEN
            Outcome("SYNC_ERR_TOO_LARGE", "too_large", st, srv, loc, <<>>, FALSE, TRUE,
                    IO(e.bundle_size, -1))
        ELSE IF ~np.resp THEN
            Outcome("SYNC_ERR_NETWORK", "network", st, srv, loc, <<>>, FALSE, TRUE,
                    IO(e.bundle_size, e.bundle_size))
        ELSE IF np.status = 200 THEN
            Outcome("SYNC_OK", "none",
                    save_last_synced_hash(st, id, hash_to_save, e.st),
                    [srv EXCEPT ![id] = {rd.files}], loc,
                    Concat(rd.files), TRUE, TRUE,
                    IO(e.bundle_size, e.bundle_size))
        ELSE
            Outcome("SYNC_OK", "none",
                    save_last_synced_hash(st, id, hash_to_save, e.st),
                    srv, loc, <<>>, FALSE, TRUE,
                    IO(e.bundle_size, e.bundle_size))

\* upload_title_with_hash computing the hash anew even when one is passed
upload_title_rehash(t, save_hash, st, srv, loc, e) ==
    LET id == t.title_id_hex
        rd == read_save(t, loc, e.read)
        np == network_post(e.bundle_size, e.net, e.status)
        hash_to_save == bundle_compute_save_hash(rd.files)
    IN  IF rd.fc < 0 THEN
            Outcome("SYNC_ERR_ARCHIVE", "read", st, srv, loc, <<>>, FALSE, TRUE,
                    IO(-1, -1))
        ELSE IF rd.fc = 0 THEN
            Outcome("SYNC_OK", "none", st, srv, loc, <<>>, FALSE, TRUE, IO(-1, -1))
        ELSE IF e.bundle_size = 0 THEN
            Outcome("SYNC_ERR_BUNDLE", "bundle", st, srv, loc, <<>>, FALSE, TRUE,
                    IO(0, -1))
        ELSE IF e.bundle_size > MAX_UPLOAD_SIZE THEN
            Outcome("SYNC_ERR_TOO_LARGE", "too_large", st, srv, loc, <<>>, FALSE, TRUE,
                    IO(e.bundle_size, -1))
        ELSE IF ~np.resp THEN
            Outcome("SYNC_ERR_NETWORK", "network", st, srv, loc, <<>>, FALSE, TRUE,
                    IO(e.bundle_size, e.bundle_size))
        ELSE IF np.status = 200 THEN
            Outcome("SYNC_OK", "none",
                    save_last_synced_hash(st, id, hash_to_save, e.st),
                    [srv EXCEPT ![id] = {rd.files}], loc,
                    Concat(rd.files), TRUE, TRUE,
                    IO(e.bundle_size, e.bundle_size))
        ELSE
            Outcome("SYNC_ERR_SERVER", "server", st, srv, loc, <<>>, FALSE, TRUE,
                    IO(e.bundle_size, e.bundle_size))

\* upload_title_with_hash rejecting a bundle of exactly the ceiling size
upload_title_ceiling_exclusive(t, save_hash, st, srv, loc, e) ==
    LET id == t.title_id_hex
        rd == read_save(t, loc, e.read)
        np == network_post(e.bundle_size, e.net, e.status)
        hash_to_save == IF save_hash = EMPTY_STR
                        THEN bundle_compute_save_hash(rd.files)
                        ELSE save_hash
    IN  IF rd.fc < 0 THEN
            Outcome("SYNC_ERR_ARCHIVE", "read", st, srv, loc, <<>>, FALSE, TRUE,
                    IO(-1, -1))
        ELSE IF rd.fc = 0 THEN
            Outcome("SYNC_OK", "none", st, srv, loc, <<>>, FALSE, TRUE, IO(-1, -1))
        ELSE IF e.bundle_size = 0 THEN
            Outcome("SYNC_ERR_BUNDLE", "bundle", st, srv, loc, <<>>, FALSE, TRUE,
                    IO(0, -1))
        ELSE IF e.bundle_size >= MAX_UPLOAD_SIZE THEN
            Outcome("SYNC_ERR_TOO_LARGE", "too_large", st, srv, loc, <<>>, FALSE, TRUE,
                    IO(e.bundle_size, -1))
        ELSE IF ~np.resp THEN
            Outcome("SYNC_ERR_NETWORK", "network", st, srv, loc, <<>>, FALSE, TRUE,
                    IO(e.bundle_size, e.bundle_size))
        ELSE IF np.status = 200 THEN
            Outcome("SYNC_OK", "none",
                    save_last_synced_hash(st, id, hash_to_save, e.st),
                    [srv EXCEPT ![id] = {rd.files}], loc,
                    Concat(rd.files), TRUE, TRUE,
                    IO(e.bundle_size, e.bundle_size))
        ELSE
            Outcome("SYNC_ERR_SERVER", "server", st, srv, loc, <<>>, FALSE, TRUE,
                    IO(e.bundle_size, e.bundle_size))

\* upload_title_with_hash(config, title, progress, save_hash)
upload_title_with_hash(t, save_hash, st, srv, loc, e) ==
    LET id == t.title_id_hex
        rd == read_save(t, loc, e.read)
        np == network_post(e.bundle_size, e.net, e.status)
        hash_to_save == IF save_hash = EMPTY_STR
                        THEN bundle_compute_save_hash(rd.files)
                        ELSE save_hash
    IN  IF rd.fc < 0 THEN
            Outcome("SYNC_ERR_ARCHIVE", "read", st, srv, loc, <<>>, FALSE, TRUE,
                    IO(-1, -1))
        ELSE IF rd.fc = 0 THEN
            Outcome("SYNC_OK", "none", st, srv, loc, <<>>, FALSE, TRUE, IO(-1, -1))
        ELSE IF e.bundle_size = 0 THEN
            Outcome("SYNC_ERR_BUNDLE", "bundle", st, srv, loc, <<>>, FALSE, TRUE,
                    IO(0, -1))
        ELSE IF e.bundle_size > MAX_UPLOAD_SIZE THEN
            Outcome("SYNC_ERR_TOO_LARGE", "too_large", st, srv, loc, <<>>, FALSE, TRUE,
                    IO(e.bundle_size, -1))
        ELSE IF ~np.resp THEN
            Outcome("SYNC_ERR_NETWORK", "network", st, srv, loc, <<>>, FALSE, TRUE,
                    IO(e.bundle_size, e.bundle_size))
        ELSE IF np.status = 200 THEN
            Outcome("SYNC_OK", "none",
                    save_last_synced_hash(st, id, hash_to_save, e.st),
                    [srv EXCEPT ![id] = {rd.files}], loc,
                    Concat(rd.files), TRUE, TRUE,
                    IO(e.bundle_size, e.bundle_size))
        ELSE
            Outcome("SYNC_ERR_SERVER", "server", st, srv, loc, <<>>, FALSE, TRUE,
                    IO(e.bundle_size, e.bundle_size))

\* download_title(config, title, progress)
download_title(t, st, srv, loc, e) ==
    LET id == t.title_id_hex
        files == CHOOSE f \in srv[id] : TRUE
        new_hash == bundle_compute_save_hash(files)
        wr == write_save(t, loc[id], files, e.write)
    IN  IF e.net = "fail" THEN
            Outcome("SYNC_ERR_NETWORK", "network", st, srv, loc, <<>>, FALSE, FALSE, IO(-1, -1))
        ELSE IF srv[id] = {} \/ e.status # 200 THEN
            Outcome("SYNC_ERR_SERVER", "server", st, srv, loc, <<>>, FALSE, FALSE, IO(-1, -1))
        ELSE IF e.parse = "bad" THEN
            Outcome("SYNC_ERR_BUNDLE", "parse", st, srv, loc, <<>>, FALSE, FALSE, IO(-1, -1))
        ELSE IF wr.ok THEN
            Outcome("SYNC_OK", wr.step,
                    save_last_synced_hash(st, id, new_hash, e.st), srv,
                    [loc EXCEPT ![id] = wr.now],
                    IF wr.step = "none" THEN Concat(wr.now) ELSE <<>>,
                    wr.step = "none", FALSE, IO(-1, -1))
        ELSE
            Outcome("SYNC_ERR_ARCHIVE", wr.step, st, srv,
                    [loc EXCEPT ![id] = wr.now], <<>>, FALSE, FALSE, IO(-1, -1))

\* the history entry of one transfer
Entry(op, id, before, o) ==
    [op |-> op, id |-> id, res |-> o.res, step |-> o.step, before |-> before,
     after |-> o.store[id], data |-> o.data, moved |-> o.moved, read |-> o.read,
     bundle |-> o.bundle, post |-> o.post]

\* -------------------------------------------------- the /sync response text
\* The response is a sequence of tokens.  A quoted string is one token: a
\* title id (a positive number) or one of the five keys; the others are the
\* brackets and the separator.
LB == -1
RB == -2
COMMA == -3
Keys == <<-11, -12, -13, -14, -15>>
KeyName == <<"upload", "download", "server_only", "conflict", "up_to_date">>

IsString(tok) == tok > 0 \/ tok <= -11

\* json_find_key: the position just after the first occurrence of "key"
\* (0 if there is none)
json_find_key(text, key) ==
    IF \E p \in 1..Len(text) : text[p] = key
    THEN 1 + CHOOSE p \in 1..Len(text) :
                 text[p] = key /\ \A q \in 1..(p - 1) : text[q] # key
    ELSE 0

\* strchr(arr, '"') twice: the position of the next quoted string at or
\* after arr (0 if there is none)
next_string(text, a) ==
    IF \E p \in a..Len(text) : IsString(text[p])
    THEN CHOOSE p \in a..Len(text) :
             IsString(text[p]) /\ \A q \in a..(p - 1) : ~IsString(text[q])
    ELSE 0

\* the loop condition of json_parse_string_array
parse_more(text, a, count) ==
    a <= Len(text) /\ text[a] # RB /\ count < MAX_TITLES

\* ------------------------------------------------------------ 3DS sync_all
NewSummary ==
    [uploaded |-> 0, downloaded |-> 0, up_to_date |-> 0, conflicts |-> 0,
     failed |-> 0, skipped |-> 0, conflict_titles |-> <<>>]

NoIds == [k \in 1..5 |-> <<>>]

\* first index j with titles[j].title_id_hex = id (0 if none): the inner
\* "for j" search of the upload and download loops
find_title(ts, id) ==
    IF \E j \in 1..Len(ts) : ts[j].title_id_hex = id
    THEN CHOOSE j \in 1..Len(ts) :
             ts[j].title_id_hex = id
             /\ \A m \in 1..(j - 1) : ts[m].title_id_hex # id
    ELSE 0

\* sync_all entry: allocate the caches, clear the summary
sync_all_begin ==
    /\ client = "3ds" /\ pc = "idle"
    /\ pc' = "hash" /\ i' = 1
    /\ hash_cache' = <<>> /\ json' = <<>>
    /\ summary' = NewSummary /\ ids' = NoIds
    /\ UNCHANGED <<last, client, titles, state, local, store, server, plan, arr, ret,
                   log, decideVars, codecVars>>

\* one pass of the hashing loop
sync_all_hash ==
    /\ pc = "hash" /\ i <= Len(titles)
    /\ LET t == titles[i] IN
       IF t.media_type = "GAME_CARD" THEN
           /\ hash_cache' = Append(hash_cache, EMPTY_STR)
           /\ UNCHANGED <<json, log>>
       ELSE
           \E r \in {"ok", "fail"} :
             \E rd \in {read_save(t, local, r)} :
               LET current_hash == IF rd.fc > 0
                                   THEN bundle_compute_save_hash(rd.files)
                                   ELSE ZERO_HASH
                   ls == load_last_synced_hash(store, t.title_id_hex)
               IN  /\ hash_cache' = Append(hash_cache, current_hash)
                   /\ json' = Append(json,
                          [title_id |-> t.title_id_hex, save_hash |-> current_hash,
                           last_synced_hash |-> IF ls.ok THEN ls.hash ELSE EMPTY_STR])
                   /\ log' = Append(log, [op |-> "hash", id |-> t.title_id_hex])
    /\ i' = i + 1
    /\ UNCHANGED <<last, client, titles, state, local, store, server, pc, plan, arr,
                   ids, summary, ret, decideVars, codecVars>>

\* ids of a set in increasing order, separated by commas
RECURSIVE IdList(_)
IdList(S) ==
    IF S = {} THEN <<>>
    ELSE LET m == CHOOSE x \in S : \A y \in S : x <= y
         IN  IF S = {m} THEN <<m>> ELSE <<m, COMMA>> \o IdList(S \ {m})

\* the response text of a plan p : id -> list number (0: in no list)
PlanText(p) ==
    LET part(k) == <<Keys[k], LB>> \o IdList({x \in DOMAIN p : p[x] = k}) \o <<RB>>
    IN  part(1) \o <<COMMA>> \o part(2) \o <<COMMA>> \o part(3) \o <<COMMA>>
        \o part(4) \o <<COMMA>> \o part(5)

\* The plans the server may answer with: every title of the request is in
\* exactly one of upload (1), download (2), conflict (4), up_to_date (5);
\* a title the request did not name is in server_only (3) or in no list.
\* Only a save the server holds is offered for download or as a conflict.
AllIds == 1..(MaxTitles + 1)

Plans(sent, srv) ==
    {p \in [AllIds -> 0..5] :
        \A x \in AllIds :
            IF x \in sent
            THEN p[x] \in (IF srv[x] = {} THEN {1, 5} ELSE {1, 2, 4, 5})
            ELSE p[x] \in (IF srv[x] = {} THEN {0} ELSE {0, 3})}

\* network_post_json("/sync") and the checks of its result
sync_all_post ==
    /\ pc = "hash" /\ i > Len(titles)
    /\ \/ /\ pc' = "done" /\ ret' = "false"
          /\ UNCHANGED <<plan, arr, i>>
       \/ \E p \in Plans({json[n].title_id : n \in 1..Len(json)}, server) :
              /\ plan' = PlanText(p)
              /\ pc' = "parse" /\ i' = 1 /\ arr' = 0
              /\ UNCHANGED ret
    /\ UNCHANGED <<last, client, titles, state, local, store, server, hash_cache,
                   json, ids, summary, log, decideVars, codecVars>>

\* strlen of a quoted string: a title id has 16 characters
KeyLen == <<6, 8, 11, 8, 10>>
str_len(tok) == IF tok > 0 THEN 16 ELSE KeyLen[-10 - tok]

\* json_parse_string_array for the i-th key, one step at a time: the key
\* lookup (arr = 0), then one pass of the while loop per step
json_parse_string_array ==
    /\ pc = "parse" /\ i <= 5
    /\ IF arr = 0 THEN
           LET a == json_find_key(plan, Keys[i]) IN
           IF a = 0 \/ a > Len(plan) \/ plan[a] # LB
           THEN /\ i' = i + 1 /\ UNCHANGED <<arr, ids>>
           ELSE /\ arr' = a + 1 /\ UNCHANGED <<i, ids>>
       ELSE IF parse_more(plan, arr, Len(ids[i])) /\ next_string(plan, arr) # 0 THEN
           LET q == next_string(plan, arr) IN
           /\ ids' = IF str_len(plan[q]) > 0 /\ str_len(plan[q]) <= 16
                     THEN [ids EXCEPT ![i] = Append(@, plan[q])]
                     ELSE ids
           /\ arr' = q + 1
           /\ UNCHANGED i
       ELSE /\ i' = i + 1 /\ arr' = 0 /\ UNCHANGED ids
    /\ UNCHANGED <<last, client, titles, state, local, store, server, pc, hash_cache,
                   json, plan, summary, ret, log, decideVars, codecVars>>

\* remove the n-th element of a sequence (the "shift remaining" loop)
remove_at(seq, n) == [m \in 1..(Len(seq) - 1) |-> IF m < n THEN seq[m] ELSE seq[m + 1]]

\* the pass without the test of has_save_data
resolve_conflict_any(ts, lists, n) ==
    IF \E j \in 1..Len(ts) : ts[j].title_id_hex = lists[4][n]
    THEN [ids |-> [lists EXCEPT
                      ![2] = IF Len(@) < MAX_TITLES THEN Append(@, lists[4][n]) ELSE @,
                      ![4] = remove_at(@, n)],
          i |-> n]
    ELSE [ids |-> lists, i |-> n + 1]

\* the pass without the step to the next conflict
resolve_conflict_stuck(ts, lists, n) ==
    IF \E j \in 1..Len(ts) :
           ts[j].title_id_hex = lists[4][n] /\ ~ts[j].has_save_data
    THEN [ids |-> [lists EXCEPT
                      ![2] = IF Len(@) < MAX_TITLES THEN Append(@, lists[4][n]) ELSE @,
                      ![4] = remove_at(@, n)],
          i |-> n]
    ELSE [ids |-> lists, i |-> n]

\* one pass of the conflict auto-resolution loop: returns the new lists
\* and the new index
resolve_conflict(ts, lists, n) ==
    IF \E j \in 1..Len(ts) :
           ts[j].title_id_hex = lists[4][n] /\ ~ts[j].has_save_data
    THEN [ids |-> [lists EXCEPT
                      ![2] = IF Len(@) < MAX_TITLES THEN Append(@, lists[4][n]) ELSE @,
                      ![4] = remove_at(@, n)],
          i |-> n]
    ELSE [ids |-> lists, i |-> n + 1]

sync_all_resolve ==
    /\ pc = "resolve" /\ i <= Len(ids[4])
    /\ \E rc \in {resolve_conflict(titles, ids, i)} :
          ids' = rc.ids /\ i' = rc.i
    /\ UNCHANGED <<last, client, titles, state, local, store, server, pc, hash_cache,
                   json, plan, arr, summary, ret, log, decideVars, codecVars>>

\* the phases with the download loop ahead of the upload loop
after_phase_downloads_first(p) ==
    CASE p = "parse" -> "resolve"
      [] p = "resolve" -> "download"
      [] p = "download" -> "upload"
      [] p = "upload" -> "server_only"
      [] OTHER -> "done"

\* the order of the phases of sync_all
after_phase(p) ==
    CASE p = "parse" -> "resolve"
      [] p = "resolve" -> "upload"
      [] p = "upload" -> "download"
      [] p = "download" -> "server_only"
      [] OTHER -> "done"

phase_len(p) ==
    CASE p = "parse" -> 5
      [] p = "resolve" -> Len(ids[4])
      [] p = "upload" -> Len(ids[1])
      [] p = "download" -> Len(ids[2])
      [] OTHER -> Len(ids[3])

SubSeqTo(seq, n) == [m \in 1..(IF Len(seq) < n THEN Len(seq) ELSE n) |-> seq[m]]

\* a loop of sync_all has run out: what follows it
sync_all_advance ==
    /\ pc \in {"parse", "resolve", "upload", "download", "server_only"}
    /\ i > phase_len(pc)
    /\ pc' = after_phase(pc) /\ i' = 1
    /\ summary' = IF pc = "resolve"
                  THEN [summary EXCEPT
                           !.up_to_date = Len(ids[5]),
                           !.conflicts = Len(ids[4]),
                           !.skipped = Len(ids[3]),
                           !.conflict_titles = SubSeqTo(ids[4], MAX_CONFLICT_DISPLAY)]
                  ELSE summary
    /\ ret' = IF after_phase(pc) = "done" THEN "true" ELSE ret
    /\ UNCHANGED <<last, client, titles, state, local, store, server, hash_cache,
                   json, plan, arr, ids, log, decideVars, codecVars>>

\* the counting with a failed download counted as downloaded as well
count_attempt_both(sm, phase, res) ==
    IF phase = "upload" THEN
        IF res = "SYNC_OK" THEN [sm EXCEPT !.uploaded = @ + 1]
        ELSE [sm EXCEPT !.failed = @ + 1]
    ELSE IF phase = "download" THEN
        IF res = "SYNC_OK" THEN [sm EXCEPT !.downloaded = @ + 1]
        ELSE [sm EXCEPT !.downloaded = @ + 1, !.failed = @ + 1]
    ELSE
        IF res = "SYNC_OK"
        THEN [sm EXCEPT !.downloaded = @ + 1, !.skipped = @ - 1]
        ELSE [sm EXCEPT !.failed = @ + 1, !.skipped = @ - 1]

\* the summary after one attempt of the given loop
count_attempt(sm, phase, res) ==
    IF phase = "upload" THEN
        IF res = "SYNC_OK" THEN [sm EXCEPT !.uploaded = @ + 1]
        ELSE [sm EXCEPT !.failed = @ + 1]
    ELSE IF phase = "download" THEN
        IF res = "SYNC_OK" THEN [sm EXCEPT !.downloaded = @ + 1]
        ELSE [sm EXCEPT !.failed = @ + 1]
    ELSE
        IF res = "SYNC_OK"
        THEN [sm EXCEPT !.downloaded = @ + 1, !.skipped = @ - 1]
        ELSE [sm EXCEPT !.failed = @ + 1, !.skipped = @ - 1]

\* the effect of one transfer on the console, the server and the history
Apply(op, id, o) ==
    /\ store' = o.store /\ server' = o.server /\ local' = o.local
    /\ log' = Append(log, [op |-> op, id |-> id])
    /\ last' = Entry(op, id, store[id], o)

\* one pass of the upload loop
sync_all_upload ==
    /\ pc = "upload" /\ i <= Len(ids[1])
    /\ LET j == find_title(titles, ids[1][i]) IN
       IF j = 0 THEN UNCHANGED <<store, server, local, log, last, summary>>
       ELSE \E e \in UpEnv :
               \E o \in {upload_title_with_hash(titles[j], hash_cache[j],
                                                 store, server, local, e)} :
                   /\ Apply("upload", titles[j].title_id_hex, o)
                   /\ summary' = count_attempt(summary, "upload", o.res)
    /\ i' = i + 1
    /\ UNCHANGED <<client, titles, state, pc, hash_cache, json, plan, arr, ids,
                   ret, decideVars, codecVars>>

\* one pass of the download loop, or of the server_only loop
sync_all_download ==
    /\ pc \in {"download", "server_only"} /\ i <= phase_len(pc)
    /\ LET list == IF pc = "download" THEN ids[2] ELSE ids[3]
           j == find_title(titles, list[i])
       IN  IF j = 0 THEN UNCHANGED <<store, server, local, log, last, summary>>
           ELSE \E e \in DownEnv :
                   \E o \in {download_title(titles[j], store, server, local, e)} :
                       /\ Apply("download", titles[j].title_id_hex, o)
                       /\ summary' = count_attempt(summary, pc, o.res)
    /\ i' = i + 1
    /\ UNCHANGED <<client, titles, state, pc, hash_cache, json, plan, arr, ids,
                   ret, decideVars, codecVars>>

\* sync_title: the user pushes one title (always an upload, hash computed)
sync_title(j) ==
    /\ client = "3ds" /\ pc = "idle"
    /\ \E e \in UpEnv :
          \E o \in {upload_title_with_hash(titles[j], EMPTY_STR,
                                            store, server, local, e)} :
              /\ Apply("upload", titles[j].title_id_hex, o)
              /\ ret' = o.res
    /\ pc' = "done"
    /\ UNCHANGED <<client, titles, state, i, hash_cache, json, plan, arr, ids,
                   summary, decideVars, codecVars>>

\* sync_download_title: the user pulls one title
sync_download_title(j) ==
    /\ client = "3ds" /\ pc = "idle"
    /\ \E e \in DownEnv :
          \E o \in {download_title(titles[j], store, server, local, e)} :
              /\ Apply("download", titles[j].title_id_hex, o)
              /\ ret' = o.res
    /\ pc' = "done"
    /\ UNCHANGED <<client, titles, state, i, hash_cache, json, plan, arr, ids,
                   summary, decideVars, codecVars>>

\* ------------------------------------------------ reconciliation decision
\* sync_decide with the two history comparisons exchanged
sync_decide_swapped(d) ==
    IF ~d.local_exists /\ ~d.server_exists THEN "UP_TO_DATE"
    ELSE IF d.local_exists /\ ~d.server_exists THEN "UPLOAD"
    ELSE IF ~d.local_exists /\ d.server_exists THEN "DOWNLOAD"
    ELSE IF d.is_synced THEN "UP_TO_DATE"
    ELSE IF d.has_last_synced THEN
        IF d.last_synced_hash = d.local_hash THEN "UPLOAD"
        ELSE IF d.last_synced_hash = d.server_hash THEN "DOWNLOAD"
        ELSE "CONFLICT"
    ELSE "CONFLICT"

\* 3DS sync_decide(details)
\* sync_decide uploading when there is no sync history
sync_decide_no_history_uploads(d) ==
    IF ~d.local_exists /\ ~d.server_exists THEN "UP_TO_DATE"
    ELSE IF d.local_exists /\ ~d.server_exists THEN "UPLOAD"
    ELSE IF ~d.local_exists /\ d.server_exists THEN "DOWNLOAD"
    ELSE IF d.is_synced THEN "UP_TO_DATE"
    ELSE IF d.has_last_synced THEN
        IF d.last_synced_hash = d.server_hash THEN "UPLOAD"
        ELSE IF d.last_synced_hash = d.local_hash THEN "DOWNLOAD"
        ELSE "CONFLICT"
    ELSE "UPLOAD"

sync_decide(d) ==
    IF ~d.local_exists /\ ~d.server_exists THEN "UP_TO_DATE"
    ELSE IF d.local_exists /\ ~d.server_exists THEN "UPLOAD"
    ELSE IF ~d.local_exists /\ d.server_exists THEN "DOWNLOAD"
    ELSE IF d.is_synced THEN "UP_TO_DATE"
    ELSE IF d.has_last_synced THEN
        IF d.last_synced_hash = d.server_hash THEN "UPLOAD"
        ELSE IF d.last_synced_hash = d.local_hash THEN "DOWNLOAD"
        ELSE "CONFLICT"
    ELSE "CONFLICT"

\* 3DS sync_get_save_details: fc is what the read returned, srv the answer
\* to GET /meta ({} unless status 200), st the state file
sync_get_save_details(fc, files, srv, st) ==
    LET local_exists == fc >= 0
        local_hash == IF fc > 0 THEN bundle_compute_save_hash(files) ELSE NA_HASH
        server_exists == srv # {}
        server_hash == IF srv # {} THEN CHOOSE h \in srv : TRUE ELSE EMPTY_STR
    IN  [client |-> "3ds",
         local_exists |-> local_exists, local_hash |-> local_hash,
         server_exists |-> server_exists, server_hash |-> server_hash,
         has_last_synced |-> st # EMPTY_STR, last_synced_hash |-> st,
         is_synced |-> local_exists /\ server_exists /\ local_hash = server_hash]

\* the DS decision without the comparison of the two current hashes
ds_decide_no_equal_check(d) ==
    IF ~d.has_local /\ ~d.has_server THEN "UP_TO_DATE"
    ELSE IF d.has_local /\ ~d.has_server THEN "UPLOAD"
    ELSE IF ~d.has_local /\ d.has_server THEN "DOWNLOAD"
    ELSE IF d.has_last_synced THEN
        IF d.last_synced_hash = d.server_hash THEN "UPLOAD"
        ELSE IF d.last_synced_hash = d.local_hash_hex THEN "DOWNLOAD"
        ELSE "CONFLICT"
    ELSE IF d.local_mtime > 0 /\ d.server_timestamp > 0 THEN
        IF d.local_mtime > d.server_timestamp THEN "UPLOAD"
        ELSE IF d.local_mtime < d.server_timestamp THEN "DOWNLOAD"
        ELSE "CONFLICT"
    ELSE "CONFLICT"

\* the DS decision with a tie of the modification times going to the server
ds_decide_tie_downloads(d) ==
    IF ~d.has_local /\ ~d.has_server THEN "UP_TO_DATE"
    ELSE IF d.has_local /\ ~d.has_server THEN "UPLOAD"
    ELSE IF ~d.has_local /\ d.has_server THEN "DOWNLOAD"
    ELSE IF d.local_hash_hex = d.server_hash THEN "UP_TO_DATE"
    ELSE IF d.has_last_synced THEN
        IF d.last_synced_hash = d.server_hash THEN "UPLOAD"
        ELSE IF d.last_synced_hash = d.local_hash_hex THEN "DOWNLOAD"
        ELSE "CONFLICT"
    ELSE IF d.local_mtime > 0 /\ d.server_timestamp > 0 THEN
        IF d.local_mtime > d.server_timestamp THEN "UPLOAD"
        ELSE "DOWNLOAD"
    ELSE "CONFLICT"

\* DS sync_decide, step 6: the decision from the values steps 1-5 gathered
ds_decide(d) ==
    IF ~d.has_local /\ ~d.has_server THEN "UP_TO_DATE"
    ELSE IF d.has_local /\ ~d.has_server THEN "UPLOAD"
    ELSE IF ~d.has_local /\ d.has_server THEN "DOWNLOAD"
    ELSE IF d.local_hash_hex = d.server_hash THEN "UP_TO_DATE"
    ELSE IF d.has_last_synced THEN
        IF d.last_synced_hash = d.server_hash THEN "UPLOAD"
        ELSE IF d.last_synced_hash = d.local_hash_hex THEN "DOWNLOAD"
        ELSE "CONFLICT"
    ELSE IF d.local_mtime > 0 /\ d.server_timestamp > 0 THEN
        IF d.local_mtime > d.server_timestamp THEN "UPLOAD"
        ELSE IF d.local_mtime < d.server_timestamp THEN "DOWNLOAD"
        ELSE "CONFLICT"
    ELSE "CONFLICT"

\* DS sync_decide, steps 1-5.  r: what reading the save file does; g: the
\* answer of network_get_save_info_ext, {} (no save, or no answer) or
\* {[hash, timestamp]}.  rc = -1: the local hash could not be computed.
ds_sync_decide(title, loc, st, g, r) ==
    LET has_local == title.save_size > 0
        hashed == IF has_local /\ ~title.hash_calculated /\ r = "ok"
                             /\ loc[title.title_id] # <<>>
                  THEN [title EXCEPT !.hash = sha256_hex(Concat(loc[title.title_id])),
                                     !.hash_calculated = TRUE]
                  ELSE title
        ls == load_last_synced_hash(st, title.title_id)
        d == [client |-> "ds",
              has_local |-> has_local, has_server |-> g # {},
              local_hash_hex |-> IF has_local /\ hashed.hash_calculated
                                 THEN hashed.hash ELSE EMPTY_STR,
              server_hash |-> IF g # {} THEN (CHOOSE x \in g : TRUE).hash
                              ELSE EMPTY_STR,
              has_last_synced |-> ls.ok,
              last_synced_hash |-> IF ls.ok THEN ls.hash ELSE EMPTY_STR,
              local_mtime |-> title.timestamp,
              server_timestamp |-> IF g # {} THEN (CHOOSE x \in g : TRUE).timestamp
                                   ELSE 0]
    IN  IF has_local /\ ~hashed.hash_calculated
        THEN [rc |-> -1, action |-> "UP_TO_DATE", title |-> hashed, d |-> d]
        ELSE [rc |-> 0, action |-> ds_decide(d), title |-> hashed, d |-> d]

\* ------------------------------------------------------------ DS transfers
\* saves_compute_hash(path, hash): r is "ok" or "fail" (open/alloc/read)
saves_compute_hash(file, r) ==
    IF r = "ok" /\ file # <<>>
    THEN [rc |-> 0, hash |-> sha256_hex(Concat(file))]
    ELSE [rc |-> -1, hash |-> EMPTY_STR]

\* saves_ensure_hash(title)
saves_ensure_hash(title, file, r) ==
    IF title.hash_calculated THEN [rc |-> 0, title |-> title]
    ELSE IF saves_compute_hash(file, r).rc = 0
    THEN [rc |-> 0, title |-> [title EXCEPT !.hash = saves_compute_hash(file, r).hash,
                                             !.hash_calculated = TRUE]]
    ELSE [rc |-> -1, title |-> title]

\* the outcome of each step of one DS upload and of one DS download (a step
\* that is not reached is left at "works")
DsUpEnv ==
    {e \in [wifi : {"on", "off"}, hash : {"ok", "fail"}, read : {"ok", "fail"},
            net : {"ok", "fail"}, st : StoreEnv] :
        /\ e.wifi = "off" => e.hash = "ok"
        /\ (e.wifi = "off" \/ e.hash = "fail") => e.read = "ok"
        /\ (e.wifi = "off" \/ e.hash = "fail" \/ e.read = "fail") => e.net = "ok"
        /\ (e.wifi = "off" \/ e.hash = "fail" \/ e.read = "fail" \/ e.net = "fail")
               => e.st = "ok"}

DsDownEnv ==
    {e \in [wifi : {"on", "off"}, net : {"ok", "fail"},
            write : {"ok", "open_fail", "short"}, rehash : {"ok", "fail"},
            hash : {"ok", "fail"}, st : StoreEnv] :
        /\ e.wifi = "off" => e.net = "ok"
        /\ (e.wifi = "off" \/ e.net = "fail") => e.write = "ok"
        /\ (e.wifi = "off" \/ e.net = "fail" \/ e.write # "ok") => e.rehash = "ok"
        /\ e.rehash = "ok" => e.hash = "ok"
        /\ (e.wifi = "off" \/ e.net = "fail" \/ e.write # "ok" \/ e.hash = "fail")
               => e.st = "ok"}

\* what a DS transfer did: rc, the title record, server and storage after,
\* the step that failed, the bytes that went over
DsOutcome(rc, step, title, srv, loc, data, moved) ==
    [rc |-> rc, step |-> step, title |-> title, server |-> srv, local |-> loc,
     data |-> data, moved |-> moved]

\* network_upload(state, title_idx)
network_upload(title, srv, loc, e) ==
    LET id == title.title_id
        eh == saves_ensure_hash(title, loc[id], e.hash)
    IN  IF e.wifi = "off" THEN
            DsOutcome(-1, "wifi", title, srv, loc, <<>>, FALSE)
        ELSE IF eh.rc # 0 THEN
            DsOutcome(-1, "read", title, srv, loc, <<>>, FALSE)
        ELSE IF e.read = "fail" \/ loc[id] = <<>> THEN
            DsOutcome(-1, "read", eh.title, srv, loc, <<>>, FALSE)
        ELSE IF e.net = "fail" THEN
            DsOutcome(-1, "network", eh.title, srv, loc, <<>>, FALSE)
        ELSE DsOutcome(0, "none", eh.title, [srv EXCEPT ![id] = {loc[id]}], loc,
                       Concat(loc[id]), TRUE)

\* network_download(state, title_idx)
network_download(title, srv, loc, e) ==
    LET id == title.title_id
        body == Concat(CHOOSE f \in srv[id] : TRUE)
        ch == saves_compute_hash(<<body>>, e.rehash)
    IN  IF e.wifi = "off" THEN
            DsOutcome(-1, "wifi", title, srv, loc, <<>>, FALSE)
        ELSE IF e.net = "fail" \/ srv[id] = {} THEN
            DsOutcome(-1, "network", title, srv, loc, <<>>, FALSE)
        ELSE IF e.write = "open_fail" THEN
            DsOutcome(-1, "write", title, srv, loc, <<>>, FALSE)
        ELSE IF e.write = "short" THEN
            DsOutcome(-1, "write", title, srv, [loc EXCEPT ![id] = << <<>> >>],
                      <<>>, FALSE)
        ELSE IF ch.rc = 0 THEN
            DsOutcome(0, "none",
                      [title EXCEPT !.save_size = Len(body), !.hash = ch.hash,
                                    !.hash_calculated = TRUE],
                      srv, [loc EXCEPT ![id] = <<body>>], body, TRUE)
        ELSE
            DsOutcome(0, "none", [title EXCEPT !.save_size = Len(body)],
                      srv, [loc EXCEPT ![id] = <<body>>], body, TRUE)

\* sync_execute taking SYNC_CONFLICT for a download
sync_execute_conflict_downloads(title, act, st, srv, loc, e) ==
    LET id == title.title_id
        t == IF act = "UPLOAD" THEN network_upload(title, srv, loc, e)
             ELSE IF act = "UP_TO_DATE"
             THEN DsOutcome(0, "none", title, srv, loc, <<>>, FALSE)
             ELSE network_download(title, srv, loc, e)
        eh == saves_ensure_hash(t.title, t.local[id], e.hash)
        st2 == IF t.rc # 0 \/ eh.rc # 0 THEN st
               ELSE save_last_synced_hash(st, id, eh.title.hash, e.st)
    IN  [res |-> IF t.rc = 0 THEN "OK" ELSE "FAIL", step |-> t.step,
         store |-> st2, server |-> t.server, local |-> t.local,
         data |-> t.data, moved |-> t.moved, read |-> act = "UPLOAD",
         bundle |-> -1, post |-> -1,
         title |-> IF t.rc = 0 THEN eh.title ELSE t.title]

\* sync_execute(state, title_idx, action): the switch on the action
\* (SYNC_CONFLICT returns -1 at once, SYNC_UP_TO_DATE sets the result to 0),
\* then the state file on result 0
sync_execute(title, act, st, srv, loc, e) ==
    LET id == title.title_id
        t == IF act = "UPLOAD" THEN network_upload(title, srv, loc, e)
             ELSE IF act = "DOWNLOAD" THEN network_download(title, srv, loc, e)
             ELSE DsOutcome(0, "none", title, srv, loc, <<>>, FALSE)
        eh == saves_ensure_hash(t.title, t.local[id], e.hash)
        st2 == IF t.rc # 0 \/ eh.rc # 0 THEN st
               ELSE save_last_synced_hash(st, id, eh.title.hash, e.st)
    IN  IF act = "CONFLICT"
        THEN [res |-> "FAIL", step |-> "conflict",
              store |-> st, server |-> srv, local |-> loc,
              data |-> <<>>, moved |-> FALSE, read |-> FALSE,
              bundle |-> -1, post |-> -1, title |-> title]
        ELSE [res |-> IF t.rc = 0 THEN "OK" ELSE "FAIL", step |-> t.step,
              store |-> st2, server |-> t.server, local |-> t.local,
              data |-> t.data, moved |-> t.moved, read |-> act = "UPLOAD",
              bundle |-> -1, post |-> -1,
              title |-> IF t.rc = 0 THEN eh.title ELSE t.title]

\* ------------------------------------------------------------- DS sync_all
\* network_get_save_info_ext(state, title_id_hex, hash, size, timestamp):
\* result 0 and the server's hash and timestamp, or a non-zero result ({})
network_get_save_info_ext(srv, id, net, ts) ==
    IF net = "ok" /\ srv[id] # {}
    THEN {[hash |-> bundle_compute_save_hash(CHOOSE f \in srv[id] : TRUE),
           timestamp |-> ts]}
    ELSE {}

ds_sync_all_begin ==
    /\ client = "ds" /\ pc = "idle"
    /\ pc' = "ds_loop" /\ i' = 1 /\ summary' = NewSummary
    /\ UNCHANGED <<client, titles, state, local, store, server, hash_cache, json,
                   plan, arr, ids, ret, log, last, decideVars, codecVars>>

\* the summary after the pass for one title
ds_count(sm, act, res) ==
    CASE res = "FAIL" -> [sm EXCEPT !.failed = @ + 1]
      [] act = "UP_TO_DATE" -> [sm EXCEPT !.up_to_date = @ + 1]
      [] act = "UPLOAD" -> [sm EXCEPT !.uploaded = @ + 1]
      [] act = "DOWNLOAD" -> [sm EXCEPT !.downloaded = @ + 1]
      [] OTHER -> [sm EXCEPT !.conflicts = @ + 1]

\* which decisions the pass executes: a title without a local save takes the
\* first branch of the loop body, which only downloads
ds_executes(title, act) ==
    IF title.save_size = 0 THEN act = "DOWNLOAD" ELSE act \in {"UPLOAD", "DOWNLOAD"}

\* one pass of the loop of sync_all: decide, then execute
ds_sync_all_title ==
    /\ pc = "ds_loop" /\ i <= Len(state)
    /\ \E r \in {"ok", "fail"}, net \in {"ok", "fail"}, ts \in 0..1 :
        \E dec \in {ds_sync_decide(state[i], local, store,
                         network_get_save_info_ext(server, state[i].title_id, net, ts),
                         r)} :
          LET title == state[i]
              id == title.title_id
              seen == Append(log, [op |-> "decide", id |-> id])
          IN  IF dec.rc # 0 THEN
                  /\ summary' = ds_count(summary, "-", "FAIL")
                  /\ state' = [state EXCEPT ![i] = dec.title]
                  /\ log' = seen
                  /\ UNCHANGED <<store, server, local, last>>
              ELSE IF ds_executes(title, dec.action) THEN
                  \E e \in (IF dec.action = "UPLOAD" THEN DsUpEnv ELSE DsDownEnv) :
                    \E o \in {sync_execute(dec.title, dec.action,
                                           store, server, local, e)} :
                      LET op == IF dec.action = "UPLOAD" THEN "upload" ELSE "download"
                      IN  /\ summary' = ds_count(summary, dec.action, o.res)
                          /\ state' = [state EXCEPT ![i] = o.title]
                          /\ store' = o.store /\ server' = o.server
                          /\ local' = o.local
                          /\ log' = Append(seen, [op |-> op, id |-> id])
                          /\ last' = Entry(op, id, store[id], o)
              ELSE
                  /\ summary' = IF title.save_size = 0 /\ dec.action # "UP_TO_DATE"
                                THEN summary
                                ELSE ds_count(summary, dec.action, "OK")
                  /\ state' = [state EXCEPT ![i] = dec.title]
                  /\ log' = seen
                  /\ UNCHANGED <<store, server, local, last>>
    /\ i' = i + 1
    /\ UNCHANGED <<client, titles, pc, hash_cache, json, plan, arr, ids, ret,
                   decideVars, codecVars>>

ds_sync_all_return ==
    /\ pc = "ds_loop" /\ i > Len(state)
    /\ pc' = "done" /\ ret' = "0"
    /\ UNCHANGED <<client, titles, state, local, store, server, i, hash_cache,
                   json, plan, arr, ids, summary, log, last, decideVars, codecVars>>

\* ----------------------------------------------------------- initial states
LocalData == <<1>>
ServerData == <<2>>

\* a TitleInfo as the scan leaves it (title.c, nds.c)
TitleInfo(id, kind, loc) ==
    [title_id_hex |-> id,
     media_type |-> IF kind = "CART" THEN "GAME_CARD" ELSE "SD",
     is_nds |-> kind # "SD",
     has_save_data |-> IF kind = "NDS" THEN loc[id] # <<>> ELSE TRUE]

Kinds == {"SD", "NDS", "CART"}

KindLists ==
    {ks \in [1..MaxTitles -> Kinds] :
        Cardinality({n \in DOMAIN ks : ks[n] = "CART"}) <= 1}

\* the saves a medium of the given kind can hold before the first sync
LocalSaves(kind) ==
    IF kind = "CART" THEN {<<cart_image(LocalData)>>}
    ELSE {<<>>, <<LocalData>>}

NoDecision == [client |-> "-"]

Init3DS ==
    /\ client = "3ds"
    /\ \E ks \in KindLists :
          /\ local \in [AllIds -> {<<>>, <<LocalData>>, <<cart_image(LocalData)>>}]
          /\ \A id \in AllIds :
                IF id \in DOMAIN ks THEN local[id] \in LocalSaves(ks[id])
                ELSE local[id] = <<>>
          /\ titles = [n \in DOMAIN ks |-> TitleInfo(n, ks[n], local)]
    /\ state = <<>>
    /\ store \in {[id \in AllIds |-> EMPTY_STR],
                  [id \in AllIds |-> sha256_hex(LocalData)]}
    /\ server \in [AllIds -> {{}, {<<ServerData>>}}]
    /\ pc = "idle" /\ i = 1
    /\ hash_cache = <<>> /\ json = <<>> /\ plan = <<>> /\ arr = 0
    /\ ids = NoIds /\ summary = NewSummary /\ ret = "-" /\ log = <<>>
    /\ last = [op |-> "-"]
    /\ details = NoDecision /\ action = "-"
    /\ arg = NoArg /\ wire = NoWire /\ out = NoOut

\* a DS Title as the scan leaves it (saves.c): the hash is computed lazily
Title(id, loc) ==
    [title_id |-> id, save_size |-> IF loc[id] = <<>> THEN 0 ELSE Len(loc[id][1]),
     hash |-> EMPTY_STR, hash_calculated |-> FALSE, timestamp |-> 0,
     scanned |-> FALSE, scan_result |-> "UP_TO_DATE"]

InitDS ==
    /\ client = "ds"
    /\ titles = <<>>
    /\ local \in [AllIds -> {<<>>, <<LocalData>>}]
    /\ local[MaxTitles + 1] = <<>>
    /\ state = [n \in 1..MaxTitles |-> Title(n, local)]
    /\ store \in [AllIds -> {EMPTY_STR, sha256_hex(LocalData), sha256_hex(ServerData)}]
    /\ store[MaxTitles + 1] = EMPTY_STR
    /\ server \in [AllIds -> {{}, {<<ServerData>>}}]
    /\ server[MaxTitles + 1] = {}
    /\ pc = "idle" /\ i = 1
    /\ hash_cache = <<>> /\ json = <<>> /\ plan = <<>> /\ arr = 0
    /\ ids = NoIds /\ summary = NewSummary /\ ret = "-" /\ log = <<>>
    /\ last = [op |-> "-"]
    /\ details = NoDecision /\ action = "-"
    /\ arg = NoArg /\ wire = NoWire /\ out = NoOut

Init == Init3DS \/ InitDS

Next ==
    \/ sync_all_begin
    \/ sync_all_hash
    \/ sync_all_post
    \/ json_parse_string_array
    \/ sync_all_resolve
    \/ sync_all_advance
    \/ sync_all_upload
    \/ sync_all_download
    \/ \E j \in 1..Len(titles) : sync_title(j)
    \/ \E j \in 1..Len(titles) : sync_download_title(j)
    \/ ds_sync_all_begin
    \/ ds_sync_all_title
    \/ ds_sync_all_return

Spec == Init /\ [][Next]_vars

\* ------------------------------------------- the decision on its own inputs
MaxTime == 2

OtherData == <<3>>
HashValues == {sha256_hex(LocalData), sha256_hex(ServerData), sha256_hex(OtherData)}
OptHash == {EMPTY_STR} \cup HashValues

\* the SaveDetails sync_get_save_details can fill in
Details3DS ==
    {sync_get_save_details(rd.fc, rd.files, srv, st) :
        rd \in {[fc |-> -1, files |-> <<>>], [fc |-> 0, files |-> <<>>],
                [fc |-> 1, files |-> <<LocalData>>],
                [fc |-> 1, files |-> <<ServerData>>],
                [fc |-> 1, files |-> <<OtherData>>]},
        srv \in {{}} \cup {{h} : h \in HashValues},
        st \in OptHash}

\* the values steps 1-5 of the DS sync_decide can gather
DetailsDS ==
    {d \in [client : {"ds"}, has_local : BOOLEAN, has_server : BOOLEAN,
            local_hash_hex : OptHash, server_hash : OptHash,
            has_last_synced : BOOLEAN, last_synced_hash : OptHash,
            local_mtime : 0..MaxTime, server_timestamp : 0..MaxTime] :
        /\ d.has_local <=> d.local_hash_hex # EMPTY_STR
        /\ d.has_server <=> d.server_hash # EMPTY_STR
        /\ d.has_last_synced <=> d.last_synced_hash # EMPTY_STR
        /\ ~d.has_server => d.server_timestamp = 0}

InitDecide ==
    /\ details \in Details3DS \cup DetailsDS
    /\ action = "-"
    /\ arg = NoArg /\ wire = NoWire /\ out = NoOut
    /\ client = details.client
    /\ titles = <<>> /\ state = <<>>
    /\ local = [id \in AllIds |-> <<>>]
    /\ store = [id \in AllIds |-> EMPTY_STR]
    /\ server = [id \in AllIds |-> {}]
    /\ pc = "idle" /\ i = 1
    /\ hash_cache = <<>> /\ json = <<>> /\ plan = <<>> /\ arr = 0
    /\ ids = NoIds /\ summary = NewSummary /\ ret = "-" /\ log = <<>>
    /\ last = [op |-> "-"]

\* the 3DS client decides
Decide3DS ==
    /\ details.client = "3ds" /\ action = "-"
    /\ action' = sync_decide(details)
    /\ UNCHANGED <<details, syncVars, codecVars>>

\* the DS client decides
DecideDS ==
    /\ details.client = "ds" /\ action = "-"
    /\ action' = ds_decide(details)
    /\ UNCHANGED <<details, syncVars, codecVars>>

NextDecide == Decide3DS \/ DecideDS

SpecDecide == InitDecide /\ [][NextDecide]_vars

\* the inputs of a decision, whichever client made it
HasLocal == IF details.client = "3ds" THEN details.local_exists ELSE details.has_local
HasServer == IF details.client = "3ds" THEN details.server_exists ELSE details.has_server
LocalHash == IF details.client = "3ds" THEN details.local_hash ELSE details.local_hash_hex
LocalTime == IF details.client = "3ds" THEN 0 ELSE details.local_mtime
ServerTime == IF details.client = "3ds" THEN 0 ELSE details.server_timestamp
Decided == action # "-"

\* C1: with neither save the decision is UP_TO_DATE, with only the local
\* save UPLOAD, with only the server save DOWNLOAD, and with both saves and
\* equal hashes UP_TO_DATE, whatever the last-synced hash is
C1_OneSidedAndEqual ==
    Decided =>
        /\ (~HasLocal /\ ~HasServer) => action = "UP_TO_DATE"
        /\ (HasLocal /\ ~HasServer) => action = "UPLOAD"
        /\ (~HasLocal /\ HasServer) => action = "DOWNLOAD"
        /\ (HasLocal /\ HasServer /\ LocalHash = details.server_hash)
               => action = "UP_TO_DATE"

C1_Witness ==
    /\ Decided /\ details.client = "ds" /\ HasLocal /\ HasServer
    /\ LocalHash = details.server_hash
    /\ details.has_last_synced /\ details.last_synced_hash # LocalHash
    /\ action = "UP_TO_DATE"

\* C2: with both saves, different hashes and a last-synced hash, the decision
\* is UPLOAD if the last-synced hash equals the server hash, DOWNLOAD if it
\* equals the local hash, CONFLICT if the three are pairwise different
C2_ThreeWay ==
    (Decided /\ HasLocal /\ HasServer /\ LocalHash # details.server_hash
             /\ details.has_last_synced) =>
        /\ details.last_synced_hash = details.server_hash => action = "UPLOAD"
        /\ details.last_synced_hash = LocalHash => action = "DOWNLOAD"
        /\ (details.last_synced_hash # details.server_hash
            /\ details.last_synced_hash # LocalHash) => action = "CONFLICT"

C2_Witness ==
    /\ Decided /\ details.client = "3ds" /\ HasLocal /\ HasServer
    /\ LocalHash # details.server_hash /\ details.has_last_synced
    /\ details.last_synced_hash = LocalHash
    /\ action = "DOWNLOAD"

\* C3: with both saves, different hashes and no last-synced hash, the newer
\* side wins when both modification times are present (local newer: UPLOAD,
\* server newer: DOWNLOAD, equal: CONFLICT); with a time missing the
\* decision is CONFLICT
C3_TimeFallback ==
    (Decided /\ HasLocal /\ HasServer /\ LocalHash # details.server_hash
             /\ ~details.has_last_synced) =>
        IF LocalTime > 0 /\ ServerTime > 0
        THEN /\ LocalTime > ServerTime => action = "UPLOAD"
             /\ LocalTime < ServerTime => action = "DOWNLOAD"
             /\ LocalTime = ServerTime => action = "CONFLICT"
        ELSE action = "CONFLICT"

C3_Witness ==
    /\ Decided /\ details.client = "ds" /\ HasLocal /\ HasServer
    /\ LocalHash # details.server_hash /\ ~details.has_last_synced
    /\ LocalTime > 0 /\ ServerTime > LocalTime
    /\ action = "DOWNLOAD"

\* ------------------------------------------------- transfers and the batch
\* a batch is running or has returned
InBatch ==
    \/ pc \in {"hash", "parse", "resolve", "upload", "download", "server_only",
               "ds_loop"}
    \/ pc = "done" /\ ret \in {"true", "false", "0"}

Transferred == last.op # "-"
Succeeded == Transferred /\ last.res \in {"SYNC_OK", "OK"}

\* C4: when a step of an upload or download fails, the title's persisted
\* last-synced hash is the same after the operation as before it
C4_FailureKeepsHash ==
    (Transferred /\ last.step # "none") => last.after = last.before

\* C5: after a transfer that reports success, loading the title's
\* last-synced hash gives the hash of the bytes uploaded or written locally
C5_SuccessRecordsHash ==
    (Succeeded /\ last.moved) =>
        /\ load_last_synced_hash(store, last.id).ok
        /\ load_last_synced_hash(store, last.id).hash = sha256_hex(last.data)

\* no download of the batch comes before an upload of the batch
UploadsFirst ==
    \A m, n \in 1..Len(log) :
        (m < n) => ~(log[m].op = "download" /\ log[n].op = "upload")

\* C6 as stated: in a batch of either client every upload is over before
\* the first download
C6_UploadsBeforeDownloads == InBatch => UploadsFirst

\* C6 amended: in a batch of the 3DS client every upload is over before the
\* first download
C6_UploadsBeforeDownloads3DS == (InBatch /\ client = "3ds") => UploadsFirst

C6_Witness ==
    /\ client = "3ds" /\ pc = "done" /\ ret = "true"
    /\ \E m, n \in 1..Len(log) :
          m < n /\ log[m].op = "upload" /\ log[n].op = "download"

IsCartId(id) ==
    \E j \in 1..Len(titles) : titles[j].title_id_hex = id /\ IsCart(titles[j])

\* C7: a batch neither reads, hashes, lists, uploads nor writes a title on a
\* raw-SPI cartridge, whatever the plan is
C7_CartUntouched ==
    (InBatch /\ client = "3ds") =>
        /\ \A n \in 1..Len(log) : ~IsCartId(log[n].id)
        /\ \A n \in 1..Len(json) : ~IsCartId(json[n].title_id)

\* the ids the response text lists under the k-th key
PlanList(k) ==
    LET a == CHOOSE p \in 1..Len(plan) : plan[p] = Keys[k]
        z == CHOOSE p \in a..Len(plan) :
                 plan[p] = RB /\ \A q \in a..(p - 1) : plan[q] # RB
    IN  {plan[p] : p \in {q \in a..z : plan[q] > 0}}

InList(k, id) == \E n \in 1..Len(ids[k]) : ids[k][n] = id

\* the title's save was absent when the titles were scanned
SaveAbsent(id) ==
    \E j \in 1..Len(titles) :
        /\ titles[j].title_id_hex = id
        /\ titles[j].is_nds /\ ~IsCart(titles[j]) /\ local[id] = <<>>

TransferCount(id) ==
    Cardinality({n \in 1..Len(log) :
                    log[n].id = id /\ log[n].op \in {"upload", "download"}})

DecideCount(id) ==
    Cardinality({n \in 1..Len(log) : log[n].id = id /\ log[n].op = "decide"})

\* when the batch has returned, every title it had to transfer was tried once
EachOnce ==
    /\ (client = "3ds" /\ pc = "done" /\ ret = "true") =>
           \A k \in 1..3 : \A n \in 1..Len(ids[k]) :
               find_title(titles, ids[k][n]) # 0 => TransferCount(ids[k][n]) = 1
    /\ (client = "ds" /\ pc = "done" /\ ret = "0") =>
           \A n \in 1..Len(state) :
               /\ DecideCount(state[n].title_id) = 1
               /\ TransferCount(state[n].title_id) <= 1

\* a step of the batch that attempts a transfer
TransferStep ==
    /\ InBatch'
    /\ Len(log') > Len(log)
    /\ log'[Len(log')].op \in {"upload", "download"}

\* exactly one of uploaded, downloaded, failed goes up, by one
OneCounter ==
    LET du == summary'.uploaded - summary.uploaded
        dd == summary'.downloaded - summary.downloaded
        df == summary'.failed - summary.failed
    IN  du >= 0 /\ dd >= 0 /\ df >= 0 /\ du + dd + df = 1

\* C9: the batch goes on after a failure: every title the plan lists for
\* upload, download or server_only and the title list holds is attempted
\* exactly once, and every attempt adds one to exactly one of uploaded,
\* downloaded, failed
C9_ContinuesAndCounts == []EachOnce /\ [][TransferStep => OneCounter]_vars

C9_Witness ==
    /\ client = "3ds" /\ pc = "done" /\ ret = "true"
    /\ summary.failed = 1 /\ summary.uploaded + summary.downloaded = 1
    /\ Succeeded
    /\ Len(ids[1]) + Len(ids[2]) + Len(ids[3]) >= 2

\* the steps of the program are taken one after the other, without pause
SpecLive == Init /\ [][Next]_vars /\ WF_vars(Next)

\* C10: a batch that has started returns
C10_BatchTerminates == (pc \in {"hash", "ds_loop"}) ~> (pc = "done")

C10_Witness ==
    /\ client = "3ds" /\ pc = "done" /\ ret = "true"
    /\ Len(ids[4]) >= 1 /\ Transferred
    /\ PlanList(4) # {id \in AllIds : InList(4, id)}

\* ============================================================ manual push
\* the state after one sync_title call (a batch ends with ret = "true")
ManualPush ==
    /\ client = "3ds" /\ pc = "done" /\ last.op = "upload"
    /\ ret \notin {"-", "true"}

\* the save of the pushed title as a read of its medium returns it now
PushedSave == read_save(titles[find_title(titles, last.id)], local, "ok")

\* the server holds a bundle of the pushed title with the local save's hash
ServerHasLocalSave ==
    /\ last.moved
    /\ server[last.id] # {}
    /\ \A f \in server[last.id] :
          bundle_compute_save_hash(f) = bundle_compute_save_hash(PushedSave.files)

InBatch3DS == InBatch /\ client = "3ds"

\* how often the hashing loop has read the save of a title
HashCount(id) ==
    Cardinality({n \in 1..Len(log) : log[n].op = "hash" /\ log[n].id = id})

\* how often the batch has read the save of a title: the hashing loop and
\* upload_title_with_hash both call the read of the title's medium
ReadCount(id) ==
    Cardinality({n \in 1..Len(log) :
                    log[n].op \in {"hash", "upload"} /\ log[n].id = id})

\* an upload of the batch has just run for a title the hashing loop hashed
CachedUpload ==
    /\ InBatch3DS /\ last.op = "upload"
    /\ hash_cache[find_title(titles, last.id)] # EMPTY_STR

\* C12 (as stated): within one batch each title's local save is read at
\* most once; the upload phase does not read the save from storage again.
C12_ReadOnce ==
    InBatch3DS => /\ \A id \in AllIds : ReadCount(id) <= 1
                  /\ (last.op = "upload" => ~last.read)

\* C12 (amended): the hashing loop reads each title's save at most once and
\* caches the hash; an upload reads the save again to build the bundle and
\* records no hash but the cached one (a failed write of the store leaves
\* the old entry or none).
C12_HashOnceReadAgain ==
    /\ InBatch3DS => \A id \in AllIds : HashCount(id) <= 1
    /\ CachedUpload =>
          /\ last.read
          /\ HashCount(last.id) = 1
          /\ last.after \in {last.before, EMPTY_STR,
                            hash_cache[find_title(titles, last.id)]}

C12_Witness ==
    /\ CachedUpload /\ last.read /\ last.moved
    /\ ReadCount(last.id) = 2
    /\ last.after = hash_cache[find_title(titles, last.id)]
    /\ last.after # last.before

\* ========================================================= upload ceiling
\* an upload of the 3DS client has run and bundle_create returned a bundle
BundleBuilt == client = "3ds" /\ last.op = "upload" /\ last.bundle > 0

\* C13: an upload whose bundle is larger than the ceiling (0x70000 bytes)
\* returns SYNC_ERR_TOO_LARGE, a result other than the network and server
\* errors, with no body handed to network_post and the last-synced hash
\* unchanged; a bundle of at most the ceiling size is never rejected as too
\* large and is posted.
C13_UploadCeiling ==
    BundleBuilt =>
        /\ last.bundle > 458752 =>
              /\ last.res = "SYNC_ERR_TOO_LARGE"
              /\ last.res \notin {"SYNC_ERR_NETWORK", "SYNC_ERR_SERVER", "SYNC_OK"}
              /\ last.post = -1 /\ ~last.moved
              /\ last.after = last.before
        /\ last.bundle <= 458752 =>
              /\ last.res # "SYNC_ERR_TOO_LARGE"
              /\ last.post = last.bundle

C13_Witness ==
    /\ BundleBuilt /\ last.bundle = MAX_UPLOAD_SIZE + 1
    /\ last.res = "SYNC_ERR_TOO_LARGE" /\ last.post = -1
    /\ last.before # EMPTY_STR

\* the largest bundle that is let through
C13_WitnessAtCeiling ==
    /\ BundleBuilt /\ last.bundle = MAX_UPLOAD_SIZE
    /\ last.res = "SYNC_OK" /\ last.moved

\* ================================================== decision side effects
\* a step of the DS batch in which sync_decide ran and nothing was executed
DecideOnlyStep ==
    /\ client = "ds"
    /\ Len(log') = Len(log) + 1
    /\ log'[Len(log')].op = "decide"

\* C14: the reconciliation decision has no side effects: a call changes
\* neither the title record (its cached hash and flags), nor any save file,
\* nor the last-synced store.  (That equal inputs give equal actions holds
\* of sync_decide and ds_decide as functions of the decision record.)
C14_DecisionPure ==
    [][DecideOnlyStep => /\ state' = state
                         /\ local' = local
                         /\ store' = store]_vars

\* ====================================================== decision symmetry
\* the decision record with the two sides exchanged: presence flags, hashes
\* and modification times swapped, the last-synced hash kept
Swap3DS(d) ==
    [d EXCEPT !.local_exists = d.server_exists, !.server_exists = d.local_exists,
              !.local_hash = d.server_hash, !.server_hash = d.local_hash]

SwapDS(d) ==
    [d EXCEPT !.has_local = d.has_server, !.has_server = d.has_local,
              !.local_hash_hex = d.server_hash, !.server_hash = d.local_hash_hex,
              !.local_mtime = d.server_timestamp,
              !.server_timestamp = d.local_mtime]

\* what the same client decides on the exchanged record
SwappedAction ==
    IF details.client = "3ds" THEN sync_decide(Swap3DS(details))
    ELSE ds_decide(SwapDS(details))

\* C15: with the local hash different from the server hash, a decision of
\* UPLOAD becomes DOWNLOAD when the two sides are swapped, and a decision
\* of DOWNLOAD becomes UPLOAD.
C15_SwapSymmetry ==
    (Decided /\ LocalHash # details.server_hash) =>
        /\ action = "UPLOAD" => SwappedAction = "DOWNLOAD"
        /\ action = "DOWNLOAD" => SwappedAction = "UPLOAD"

\* a three-way UPLOAD (only the client changed) that swaps to DOWNLOAD
C15_Witness ==
    /\ Decided /\ HasLocal /\ HasServer /\ LocalHash # details.server_hash
    /\ details.has_last_synced /\ action = "UPLOAD"
    /\ SwappedAction = "DOWNLOAD"

\* ================================================================= bundles
\* A byte buffer is a sequence of 0..255.  A u32 is the pair <<high, low>> of
\* its 16-bit halves, so that sums wrap at 2^32 as in the code; a u64 is the
\* pair <<high, low>> of its u32 halves.
U32(n) == <<n \div 65536, n % 65536>>

\* a + b in u32 arithmetic
u32_add(a, b) ==
    <<(a[1] + b[1] + ((a[2] + b[2]) \div 65536)) % 65536, (a[2] + b[2]) % 65536>>

\* the sum a + b does not fit 32 bits
u32_overflows(a, b) == a[1] + b[1] + ((a[2] + b[2]) \div 65536) >= 65536

u32_gt(a, b) == a[1] > b[1] \/ (a[1] = b[1] /\ a[2] > b[2])

\* (int)a > n for an int n >= 0: a value with the top bit set is negative
int_gt(a, n) == a[1] < 32768 /\ a[1] * 65536 + a[2] > n

\* a u32 that is used as a position in a buffer (below 2^31 there)
u32_index(a) == a[1] * 65536 + a[2]

write_u16_le(val) == <<val % 256, val \div 256>>
write_u32_le(val) == write_u16_le(val[2]) \o write_u16_le(val[1])
write_u16_be(val) == <<val \div 256, val % 256>>
\* write_u64_be with the two 32-bit halves in the wrong order
write_u64_halves_swapped(val) ==
    write_u16_be(val[2][1]) \o write_u16_be(val[2][2])
        \o write_u16_be(val[1][1]) \o write_u16_be(val[1][2])

write_u64_be(val) ==
    write_u16_be(val[1][1]) \o write_u16_be(val[1][2])
        \o write_u16_be(val[2][1]) \o write_u16_be(val[2][2])

\* the readers take the buffer and the position of the first byte (from 0)
read_u16_le(buf, at) == buf[at + 1] + 256 * buf[at + 2]
read_u32_le(buf, at) == <<read_u16_le(buf, at + 2), read_u16_le(buf, at)>>
read_u16_be(buf, at) == 256 * buf[at + 1] + buf[at + 2]
read_u64_be(buf, at) ==
    <<<<read_u16_be(buf, at), read_u16_be(buf, at + 2)>>,
      <<read_u16_be(buf, at + 4), read_u16_be(buf, at + 6)>>>>

\* ---- zlib, as far as the codec relies on it: compress2 gives a stream
\* that uncompress turns back into the input; uncompress fails on a stream
\* that is damaged or cut and on output that does not fit the destination.
\* The stream here is a header byte, (run length, byte) pairs and a checksum.
Z_STREAM_HEADER == <<120>>

\* the length of the run of equal bytes p starts with, 255 at most
run_length(p) ==
    LET most == IF Len(p) < 255 THEN Len(p) ELSE 255
    IN  CHOOSE n \in 1..most :
            /\ \A m \in 1..n : p[m] = p[1]
            /\ n = most \/ p[n + 1] # p[1]

RECURSIVE deflate(_)
deflate(p) ==
    IF p = <<>> THEN <<>>
    ELSE LET n == run_length(p)
         IN  <<n, p[1]>> \o deflate(SubSeq(p, n + 1, Len(p)))

\* the checksum that ends a stream
adler(p) == (7 * Len(p) + Cardinality({n \in DOMAIN p : p[n] % 2 = 1})) % 251

RECURSIVE inflate(_)
inflate(s) ==
    IF Len(s) < 2 THEN <<>>
    ELSE [n \in 1..s[1] |-> s[2]] \o inflate(SubSeq(s, 3, Len(s)))

compress2(source) ==
    [zret |-> "Z_OK", dest |-> Z_STREAM_HEADER \o deflate(source) \o <<adler(source)>>]

\* uncompress(dest, &dest_len, source, source_len); dest_len is the room
uncompress(dest_len, source) ==
    LET body == SubSeq(source, 2, Len(source) - 1)
        dest == inflate(body)
    IN  IF Len(source) < 2 \/ SubSeq(source, 1, 1) # Z_STREAM_HEADER
        THEN [zret |-> "Z_DATA_ERROR", dest |-> <<>>, dest_len |-> U32(0)]
        ELSE IF Len(body) % 2 # 0 \/ \E n \in 1..Len(body) : n % 2 = 1 /\ body[n] = 0
        THEN [zret |-> "Z_DATA_ERROR", dest |-> <<>>, dest_len |-> U32(0)]
        ELSE IF adler(dest) # source[Len(source)]
        THEN [zret |-> "Z_DATA_ERROR", dest |-> <<>>, dest_len |-> U32(0)]
        ELSE IF u32_gt(U32(Len(dest)), dest_len)
        THEN [zret |-> "Z_BUF_ERROR", dest |-> <<>>, dest_len |-> U32(0)]
        ELSE [zret |-> "Z_OK", dest |-> dest, dest_len |-> U32(Len(dest))]

\* sha256(data, len, hash): the 32 bytes put into the file table
sha256(data) ==
    [n \in 1..32 |-> IF n <= Len(data) THEN data[n]
                     ELSE IF n = Len(data) + 1 THEN 128 ELSE 0]

\* ---- bundle.h
BUNDLE_MAGIC == <<51, 68, 83, 83>>
BUNDLE_VERSION == 1
BUNDLE_VERSION_COMPRESSED == 2
HEADER_SIZE == 28
MAX_PATH_LEN == 256

\* an ArchiveFile: path (without the terminating 0), size, data
ArchiveFile(path, data) == [path |-> path, size |-> U32(Len(data)), data |-> data]

\* the first size bytes of a file's data
file_bytes(f) == SubSeq(f.data, 1, u32_index(f.size))

\* (u16)strlen(path)
path_len16(f) == Len(f.path) % 65536

\* ---- bundle_create
RECURSIVE table_size(_)
table_size(files) ==
    IF files = <<>> THEN U32(0)
    ELSE u32_add(U32(2 + path_len16(Head(files)) + 4 + 32), table_size(Tail(files)))

RECURSIVE total_data(_)
total_data(files) ==
    IF files = <<>> THEN U32(0)
    ELSE u32_add(Head(files).size, total_data(Tail(files)))

RECURSIVE file_table(_)
file_table(files) ==
    IF files = <<>> THEN <<>>
    ELSE LET f == Head(files)
         IN  write_u16_le(path_len16(f)) \o SubSeq(f.path, 1, path_len16(f))
                 \o write_u32_le(f.size) \o sha256(file_bytes(f))
                 \o file_table(Tail(files))

RECURSIVE file_data(_)
file_data(files) ==
    IF files = <<>> THEN <<>>
    ELSE file_bytes(Head(files)) \o file_data(Tail(files))

\* the 28-byte header
bundle_header(version, title_id, timestamp, file_count, size_field) ==
    BUNDLE_MAGIC \o write_u32_le(version) \o write_u64_be(title_id)
        \o write_u32_le(timestamp) \o write_u32_le(file_count)
        \o write_u32_le(size_field)

\* bundle_create(title_id, timestamp, files, file_count, &out_size): the
\* buffer, or <<>> for NULL.  Allocations are taken to succeed.
bundle_create(title_id, timestamp, files) ==
    LET payload_size == u32_add(table_size(files), total_data(files))
        payload == file_table(files) \o file_data(files)
        z == compress2(payload)
    IN  IF z.zret # "Z_OK" THEN [buf |-> <<>>, size |-> U32(0)]
        ELSE [buf |-> bundle_header(U32(BUNDLE_VERSION_COMPRESSED), title_id,
                                    timestamp, U32(Len(files)), payload_size)
                          \o z.dest,
              size |-> u32_add(U32(HEADER_SIZE), U32(Len(z.dest)))]

\* ---- parse_payload
\* the result of a parse: rc is the file count or -1; a decoded file is its
\* path, its size and the position in the payload its data pointer is set
\* to; overrun says that an element past files[max_files - 1] was written
Parsed(rc, files, overrun) == [rc |-> rc, files |-> files, overrun |-> overrun]

TableResult(rc, files, overrun, offset) ==
    [rc |-> rc, files |-> files, overrun |-> overrun, offset |-> offset]

\* the file table loop from entry k on: rc 0 when the table is read
RECURSIVE read_file_table(_, _, _, _, _, _, _)
read_file_table(payload, payload_size, file_count, max_files, k, offset, files) ==
    IF ~u32_gt(file_count, U32(k)) THEN TableResult(0, files, FALSE, offset)
    ELSE IF u32_gt(u32_add(offset, U32(2)), payload_size)
    THEN TableResult(-1, files, FALSE, offset)
    ELSE
      LET path_len == read_u16_le(payload, u32_index(offset))
          at_path == u32_add(offset, U32(2))
          at_size == u32_add(at_path, U32(path_len))
          at_hash == u32_add(at_size, U32(4))
      IN  IF u32_gt(u32_add(at_path, U32(path_len)), payload_size)
          THEN TableResult(-1, files, FALSE, offset)
          ELSE IF path_len >= MAX_PATH_LEN
          THEN TableResult(-1, files, FALSE, offset)
          ELSE IF k >= max_files
          THEN TableResult(-1, files, TRUE, offset)
          ELSE IF u32_gt(u32_add(at_size, U32(4)), payload_size)
          THEN TableResult(-1, files, FALSE, offset)
          ELSE IF u32_gt(u32_add(at_hash, U32(32)), payload_size)
          THEN TableResult(-1, files, FALSE, offset)
          ELSE read_file_table(payload, payload_size, file_count, max_files, k + 1,
                   u32_add(at_hash, U32(32)),
                   Append(files,
                       [path |-> SubSeq(payload, u32_index(at_path) + 1,
                                        u32_index(at_path) + path_len),
                        size |-> read_u32_le(payload, u32_index(at_size)),
                        at |-> U32(0)]))

\* the file data loop from file k on
RECURSIVE place_file_data(_, _, _, _)
place_file_data(payload_size, k, offset, files) ==
    IF k > Len(files) THEN Parsed(Len(files), files, FALSE)
    ELSE IF u32_gt(u32_add(offset, files[k].size), payload_size)
    THEN Parsed(-1, files, FALSE)
    ELSE place_file_data(payload_size, k + 1, u32_add(offset, files[k].size),
                         [files EXCEPT ![k].at = offset])

parse_payload(payload, payload_size, file_count, max_files) ==
    IF int_gt(file_count, max_files) THEN Parsed(-1, <<>>, FALSE)
    ELSE LET t == read_file_table(payload, payload_size, file_count, max_files,
                                  0, U32(0), <<>>)
         IN  IF t.rc < 0 THEN Parsed(-1, t.files, t.overrun)
             ELSE place_file_data(payload_size, 1, t.offset, t.files)

\* ---- bundle_parse
\* an output argument the call has not written
UNSET == <<>>

\* the result of bundle_parse: rc, the output arguments, the buffer the
\* file data points into ("data" + 28 or "decompressed") and its bytes
ParseResult(p, title_id, timestamp, out_decompressed, payload) ==
    [rc |-> p.rc, files |-> p.files, overrun |-> p.overrun,
     title_id |-> title_id, timestamp |-> timestamp,
     out_decompressed |-> out_decompressed, payload |-> payload]

\* bundle_parse taking the size field as the payload size of version 1 too
bundle_parse_size_field_v1(data, max_files) ==
    LET fail == Parsed(-1, <<>>, FALSE)
        version == read_u32_le(data, 4)
        title_id == read_u64_be(data, 8)
        timestamp == read_u32_le(data, 16)
        file_count == read_u32_le(data, 20)
        size_field == read_u32_le(data, 24)
        rest == SubSeq(data, HEADER_SIZE + 1, Len(data))
        z == uncompress(size_field, rest)
    IN  IF Len(data) < HEADER_SIZE
        THEN ParseResult(fail, UNSET, UNSET, "NULL", <<>>)
        ELSE IF SubSeq(data, 1, 4) # BUNDLE_MAGIC
        THEN ParseResult(fail, UNSET, UNSET, "NULL", <<>>)
        ELSE IF version # U32(BUNDLE_VERSION)
                /\ version # U32(BUNDLE_VERSION_COMPRESSED)
        THEN ParseResult(fail, UNSET, UNSET, "NULL", <<>>)
        ELSE IF version = U32(BUNDLE_VERSION_COMPRESSED) THEN
            IF z.zret # "Z_OK" \/ z.dest_len # size_field
            THEN ParseResult(fail, title_id, timestamp, "NULL", <<>>)
            ELSE ParseResult(parse_payload(z.dest, size_field, file_count, max_files),
                             title_id, timestamp, "decompressed", z.dest)
        ELSE ParseResult(parse_payload(rest, size_field, file_count, max_files),
                         title_id, timestamp, "NULL", rest)

\* bundle_parse(data, data_size, &title_id, &timestamp, files, max_files,
\* &out_decompressed).  Allocations are taken to succeed.
bundle_parse(data, max_files) ==
    LET fail == Parsed(-1, <<>>, FALSE)
        version == read_u32_le(data, 4)
        title_id == read_u64_be(data, 8)
        timestamp == read_u32_le(data, 16)
        file_count == read_u32_le(data, 20)
        size_field == read_u32_le(data, 24)
        rest == SubSeq(data, HEADER_SIZE + 1, Len(data))
        z == uncompress(size_field, rest)
    IN  IF Len(data) < HEADER_SIZE
        THEN ParseResult(fail, UNSET, UNSET, "NULL", <<>>)
        ELSE IF SubSeq(data, 1, 4) # BUNDLE_MAGIC
        THEN ParseResult(fail, UNSET, UNSET, "NULL", <<>>)
        ELSE IF version # U32(BUNDLE_VERSION)
                /\ version # U32(BUNDLE_VERSION_COMPRESSED)
        THEN ParseResult(fail, UNSET, UNSET, "NULL", <<>>)
        ELSE IF version = U32(BUNDLE_VERSION_COMPRESSED) THEN
            IF z.zret # "Z_OK" \/ z.dest_len # size_field
            THEN ParseResult(fail, title_id, timestamp, "NULL", <<>>)
            ELSE ParseResult(parse_payload(z.dest, size_field, file_count, max_files),
                             title_id, timestamp, "decompressed", z.dest)
        ELSE ParseResult(parse_payload(rest, U32(Len(rest)), file_count, max_files),
                         title_id, timestamp, "NULL", rest)

\* ---------------------------------------------------------- codec inputs
MaxFiles == 2

TitleIds == {<<<<4, 0>>, <<1, 2>>>>, <<<<4, 32768>>, <<65535, 255>>>>}
Timestamps == {U32(0), <<40000, 513>>}
Paths == {<<>>, <<97>>, <<98, 47, 99>>}
Datas == {<<>>, <<7>>, <<7, 7>>, <<8, 7>>}
ArchiveFiles == {ArchiveFile(p, d) : p \in Paths, d \in Datas}
FileLists == UNION {[1..m -> ArchiveFiles] : m \in 0..MaxFiles}

\* the longest path an ArchiveFile can hold
LongPath == [n \in 1..(MAX_PATH_LEN - 1) |-> 97]

\* what the callers pass to bundle_create, followed by a parse that allows
\* max_files files (MAX_SAVE_FILES in the callers)
CreateArgs ==
    {[op |-> "create", defect |-> "none", title_id |-> t, timestamp |-> ts,
      files |-> fl, max_files |-> MaxFiles] :
        t \in TitleIds, ts \in Timestamps,
        fl \in FileLists \cup {<<ArchiveFile(LongPath, <<7>>)>>}}

\* file lists whose save hash is computed
HashArgs == {[op |-> "hash", defect |-> "none", files |-> fl] : fl \in FileLists}

\* ---- bundles as a server or a damaged transfer can deliver them
\* a parse argument: what is wrong with the bundle, and the caller's limit
ParseArg(defect) == [op |-> "parse", defect |-> defect, max_files |-> MaxFiles]

Received(defect, bytes) == [arg |-> ParseArg(defect), bytes |-> bytes]

\* a file table entry as declared: path length, path bytes, size
raw_entry(path_len, path, size) ==
    write_u16_le(path_len) \o path \o write_u32_le(size) \o sha256(<<>>)

\* k entries with an empty path and no data
RECURSIVE empty_entries(_)
empty_entries(k) ==
    IF k = 0 THEN <<>> ELSE raw_entry(0, <<>>, U32(0)) \o empty_entries(k - 1)

payload_of(files) == file_table(files) \o file_data(files)

bundle_v1(file_count, payload) ==
    bundle_header(U32(BUNDLE_VERSION), <<<<4, 0>>, <<1, 2>>>>, <<40000, 513>>,
                  file_count, U32(0)) \o payload

bundle_v2(file_count, size_field, stream) ==
    bundle_header(U32(BUNDLE_VERSION_COMPRESSED), <<<<4, 0>>, <<1, 2>>>>,
                  <<40000, 513>>, file_count, size_field) \o stream

Prefixes(bytes, from, to) == {SubSeq(bytes, 1, n) : n \in from..to}

\* the file lists the delivered bundles are made of
SentLists == {fl \in FileLists : \A n \in DOMAIN fl : fl[n].path # <<97>>}

GoodBundles ==
    {Received("none", bundle_v1(U32(Len(fl)), payload_of(fl))) : fl \in SentLists}
    \cup {Received("none", bundle_v2(U32(Len(fl)), U32(Len(payload_of(fl))),
                                     compress2(payload_of(fl)).dest)) :
              fl \in SentLists}

ShortBundles ==
    {Received("short", b) :
        b \in Prefixes(bundle_v1(U32(0), <<>>), 0, HEADER_SIZE - 1)}

BadMagicBundles ==
    {Received("magic", m \o SubSeq(bundle_v1(U32(0), <<>>), 5, HEADER_SIZE)) :
        m \in {<<51, 68, 83, 84>>, <<0, 68, 83, 83>>, <<83, 83, 68, 51>>}}

BadVersionBundles ==
    {Received("version",
              bundle_header(v, <<<<4, 0>>, <<1, 2>>>>, U32(0), U32(0), U32(0))) :
        v \in {U32(0), U32(3), <<1, 1>>, <<2, 2>>, <<256, 0>>, <<0, 512>>}}

\* a bundle that ends inside its file table
CutTableBundles ==
    UNION {{Received("table",
                     bundle_v1(U32(Len(fl)), SubSeq(file_table(fl), 1, n))),
            Received("table",
                     bundle_v2(U32(Len(fl)), U32(n),
                               compress2(SubSeq(file_table(fl), 1, n)).dest))} :
              fl \in {<<ArchiveFile(<<98, 47, 99>>, <<7>>)>>,
                      <<ArchiveFile(<<>>, <<>>), ArchiveFile(<<98, 47, 99>>, <<7>>)>>},
              n \in 0..40}

\* a bundle that declares a path of MAX_PATH_LEN bytes or more
LongPathBundles ==
    {Received("path", bundle_v1(U32(1),
                  raw_entry(MAX_PATH_LEN, LongPath \o <<97>>, U32(0)))),
     Received("path", bundle_v1(U32(1), raw_entry(65535, <<97>>, U32(0)))),
     Received("path", bundle_v1(U32(1),
                  raw_entry(MAX_PATH_LEN + 1, LongPath \o <<97, 97>>, U32(0))))}

\* a bundle that declares more files than the caller allows
ManyFilesBundles ==
    {Received("count", bundle_v1(c, empty_entries(k))) :
        c \in {U32(MaxFiles + 1), U32(MaxFiles + 2), <<32767, 65535>>,
               <<32768, 0>>, <<65535, 65535>>},
        k \in {0, MaxFiles, MaxFiles + 1}}

\* a version-2 bundle whose stream is damaged or cut
BadStreamBundles ==
    LET fl == <<ArchiveFile(<<98, 47, 99>>, <<7, 7>>)>>
        stream == compress2(payload_of(fl)).dest
        size == U32(Len(payload_of(fl)))
    IN  {Received("stream", bundle_v2(U32(1), size, s)) :
            s \in Prefixes(stream, 0, Len(stream) - 1)
                  \cup {<<121>> \o Tail(stream),
                        [stream EXCEPT ![Len(stream)] = (@ + 1) % 251],
                        [stream EXCEPT ![3] = (@ + 1) % 256]}}

\* a version-2 bundle whose size field is not the decompressed length
WrongLengthBundles ==
    LET fl == <<ArchiveFile(<<98, 47, 99>>, <<7, 7>>)>>
        stream == compress2(payload_of(fl)).dest
        len == Len(payload_of(fl))
    IN  {Received("length", bundle_v2(U32(1), s, stream)) :
            s \in {U32(0), U32(len - 1), U32(len + 1), <<1, len>>,
                   <<65535, 65535>>}}

\* a bundle that ends inside its file data, or declares file sizes that the
\* payload does not hold
ShortDataBundles ==
    {Received("data", bundle_v1(U32(1), raw_entry(0, <<>>, s) \o d)) :
        s \in {U32(1), U32(2), U32(3), <<1, 0>>, <<32768, 0>>, <<65535, 65498>>,
               <<65535, 65499>>, <<65535, 65535>>},
        d \in {<<>>, <<7>>}}
    \cup {Received("data", bundle_v1(U32(2),
              raw_entry(0, <<>>, s) \o raw_entry(0, <<>>, U32(2)) \o <<7, 8>>)) :
        s \in {U32(1), <<65535, 65535>>, <<65535, 65534>>}}

ReceivedBundles ==
    GoodBundles \cup ShortBundles \cup BadMagicBundles \cup BadVersionBundles
        \cup CutTableBundles \cup LongPathBundles \cup ManyFilesBundles
        \cup BadStreamBundles \cup WrongLengthBundles \cup ShortDataBundles

\* ------------------------------------------------------------- codec spec
InitBundle ==
    /\ \/ /\ arg \in CreateArgs \cup HashArgs
          /\ wire = NoWire
       \/ \E r \in ReceivedBundles :
             /\ arg = r.arg
             /\ wire = [ready |-> TRUE, bytes |-> r.bytes]
    /\ out = NoOut
    /\ details = NoDecision /\ action = "-"
    /\ client = "-"
    /\ titles = <<>> /\ state = <<>>
    /\ local = [id \in AllIds |-> <<>>]
    /\ store = [id \in AllIds |-> EMPTY_STR]
    /\ server = [id \in AllIds |-> {}]
    /\ pc = "idle" /\ i = 1
    /\ hash_cache = <<>> /\ json = <<>> /\ plan = <<>> /\ arr = 0
    /\ ids = NoIds /\ summary = NewSummary /\ ret = "-" /\ log = <<>>
    /\ last = [op |-> "-"]

\* the caller builds a bundle of its files
BundleCreate ==
    /\ arg.op = "create" /\ ~wire.ready
    /\ wire' = [ready |-> TRUE,
                bytes |-> bundle_create(arg.title_id, arg.timestamp, arg.files).buf]
    /\ UNCHANGED <<arg, out, syncVars, decideVars>>

\* What a call of bundle_parse can come to.  Writing past the files array is
\* undefined: the call may return what it computed, with memory behind the
\* array overwritten, or not return.
Fates(r) ==
    {[f \in {"fate"} |-> "returned"] @@ r}
        \cup (IF r.overrun THEN {[f \in {"fate"} |-> "crashed"] @@ r} ELSE {})

\* the caller parses the bundle at hand
BundleParse ==
    /\ wire.ready /\ out = NoOut
    /\ out' \in Fates(bundle_parse(wire.bytes, arg.max_files))
    /\ UNCHANGED <<arg, wire, syncVars, decideVars>>

\* the files a list of ArchiveFile holds, each as its size bytes of data
FileData(files) == [n \in DOMAIN files |-> file_bytes(files[n])]

\* the caller computes the save hash of its files
BundleHash ==
    /\ arg.op = "hash" /\ out = NoOut
    /\ out' = [fate |-> "returned",
               hex |-> bundle_compute_save_hash(FileData(arg.files))]
    /\ UNCHANGED <<arg, wire, syncVars, decideVars>>

NextBundle == BundleCreate \/ BundleParse \/ BundleHash

SpecBundle == InitBundle /\ [][NextBundle]_vars

\* ============================================================ codec claims
\* bundle_parse has returned (not crashed) for the bundle at hand
Returned == out # NoOut /\ out.fate = "returned" /\ arg.op # "hash"

\* the bytes the data pointer and size of decoded file n cover
DecodedData(n) ==
    SubSeq(out.payload, u32_index(out.files[n].at) + 1,
           u32_index(out.files[n].at) + u32_index(out.files[n].size))

\* the arguments of bundle_create are within what the decoder takes
Encodable ==
    /\ arg.op = "create" /\ Len(arg.files) <= arg.max_files
    /\ \A n \in DOMAIN arg.files :
          /\ Len(arg.files[n].path) < MAX_PATH_LEN
          /\ arg.files[n].size = U32(Len(arg.files[n].data))

\* C16: bundle_parse(bundle_create(title_id, timestamp, files)) returns the
\* same title id, timestamp, file count, paths, sizes and data bytes, in
\* the same order.
C16_RoundTrip ==
    (Returned /\ Encodable) =>
        /\ out.rc = Len(arg.files)
        /\ out.title_id = arg.title_id
        /\ out.timestamp = arg.timestamp
        /\ Len(out.files) = Len(arg.files)
        /\ \A n \in DOMAIN arg.files :
              /\ out.files[n].path = arg.files[n].path
              /\ out.files[n].size = arg.files[n].size
              /\ DecodedData(n) = arg.files[n].data

\* two files with different paths and data have come back
C16_Witness ==
    /\ Returned /\ Encodable /\ out.rc = 2
    /\ arg.files[1].path # arg.files[2].path
    /\ arg.files[1].data # arg.files[2].data /\ arg.files[2].data # <<>>
    /\ DecodedData(2) = arg.files[2].data
    /\ arg.title_id = <<<<4, 32768>>, <<65535, 255>>>>

\* bundle_parse has run on a delivered bundle
Parsed_Received == arg.op = "parse" /\ out # NoOut

\* C17: bundle_parse returns -1, and never a file count, when the input is
\* shorter than the header, the magic is wrong, the version is neither 1
\* nor 2, the file table is cut, a path length reaches the limit, more
\* files are declared than the caller allows, decompression fails, or the
\* decompressed length differs from the declared one.
C17_RejectsMalformed ==
    (Parsed_Received /\ arg.defect \in {"short", "magic", "version", "table", "path",
                                        "count", "stream", "length"}) =>
        out.fate = "returned" /\ out.rc = -1

\* the same without the bundles that declare too many files
C17_RejectsOtherDefects ==
    (Parsed_Received /\ arg.defect \in {"short", "magic", "version", "table", "path",
                                        "stream", "length"}) =>
        out.fate = "returned" /\ out.rc = -1 /\ ~out.overrun

\* C18: whenever parse_payload succeeds, every decoded file's data range
\* [offset, offset + size) lies inside the payload, also when offset + size
\* exceeds 2^32 - 1.
C18_DataInsidePayload ==
    (Returned /\ out.rc >= 0) =>
        \A n \in DOMAIN out.files :
            /\ ~u32_overflows(out.files[n].at, out.files[n].size)
            /\ ~u32_gt(u32_add(out.files[n].at, out.files[n].size),
                       U32(Len(out.payload)))

\* the same for bundles whose declared sizes keep offset + size below 2^32
C18_DataInsideUnlessWrapped ==
    (Returned /\ out.rc >= 0
        /\ \A n \in DOMAIN out.files :
              ~u32_overflows(out.files[n].at, out.files[n].size)) =>
        \A n \in DOMAIN out.files :
            ~u32_gt(u32_add(out.files[n].at, out.files[n].size),
                    U32(Len(out.payload)))

\* the version-2 form of a version-1 bundle: the same header fields, the
\* size field set to the length of the payload, the payload deflated
AsVersion2(bytes) ==
    SubSeq(bytes, 1, 4) \o write_u32_le(U32(BUNDLE_VERSION_COMPRESSED))
        \o SubSeq(bytes, 9, 24) \o write_u32_le(U32(Len(bytes) - HEADER_SIZE))
        \o compress2(SubSeq(bytes, HEADER_SIZE + 1, Len(bytes))).dest

\* a version-1 bundle (well-formed or not) has been parsed
ParsedVersion1 ==
    /\ Returned /\ arg.op = "parse" /\ Len(wire.bytes) >= HEADER_SIZE
    /\ SubSeq(wire.bytes, 1, 4) = BUNDLE_MAGIC
    /\ read_u32_le(wire.bytes, 4) = U32(BUNDLE_VERSION)

\* what bundle_parse returns for the version-2 form of the bundle at hand
OtherForm == bundle_parse(AsVersion2(wire.bytes), arg.max_files)

\* the bytes the data pointer and size of file n of the other form cover
OtherFormData(n) ==
    SubSeq(OtherForm.payload, u32_index(OtherForm.files[n].at) + 1,
           u32_index(OtherForm.files[n].at) + u32_index(OtherForm.files[n].size))

\* C19: for the same header fields and payload bytes, the version-1 form
\* and the version-2 form parse to the same result, title id, timestamp and
\* file list; for version 1 the decompressed-buffer pointer is null, for
\* version 2 it is the buffer the file data points into.
C19_VersionsAlike ==
    ParsedVersion1 =>
        /\ out.rc = OtherForm.rc
        /\ out.title_id = OtherForm.title_id
        /\ out.timestamp = OtherForm.timestamp
        /\ out.out_decompressed = "NULL"
        /\ out.rc >= 0 =>
              /\ OtherForm.out_decompressed = "decompressed"
              /\ out.files = OtherForm.files
              /\ OtherForm.payload = out.payload
              /\ \A n \in DOMAIN out.files :
                    ~u32_overflows(out.files[n].at, out.files[n].size)
                        => DecodedData(n) = OtherFormData(n)

C19_Witness ==
    /\ ParsedVersion1 /\ out.rc = 2 /\ OtherForm.rc = 2
    /\ OtherForm.out_decompressed = "decompressed"
    /\ DecodedData(2) = <<8, 7>> /\ OtherFormData(2) = <<8, 7>>

\* the save hash of a file list has been computed
Hashed == arg.op = "hash" /\ out # NoOut

\* C20: two file lists get the same save hash exactly when their
\* concatenated data bytes are equal, whatever the paths are and however
\* the bytes are split into files.
C20_HashOfConcatenation ==
    Hashed =>
        \A fl \in FileLists :
            (out.hex = bundle_compute_save_hash(FileData(fl)))
                <=> (Concat(FileData(arg.files)) = Concat(FileData(fl)))

\* two bytes in one file hash like the same two bytes in two files with
\* other paths, and unlike one of the bytes alone
C20_Witness ==
    /\ Hashed
    /\ arg.files = <<ArchiveFile(<<97>>, <<7, 7>>)>>
    /\ out.hex = bundle_compute_save_hash(
                     FileData(<<ArchiveFile(<<>>, <<7>>),
                                ArchiveFile(<<98, 47, 99>>, <<7>>)>>))
    /\ out.hex # bundle_compute_save_hash(FileData(<<ArchiveFile(<<97>>, <<7>>)>>))

\* ============================================ downloads and their buffers
\* download_title and sync_download_history hold three heap buffers: resp
\* (the response), files (the ArchiveFile array) and, for a version-2
\* bundle, decompressed.  The file data pointers lead into decompressed, or
\* into resp for version 1.
Ev(op, b) == [op |-> op, buf |-> b]

data_buffer(p) == IF p.out_decompressed = "NULL" THEN "resp" ELSE "decompressed"

\* one pass over the decoded files: files[k].size and files[k].data are
\* read for k < file_count, and the data they point to
file_reads(p) ==
    IF p.rc > 0 THEN <<Ev("read", "files"), Ev("read", data_buffer(p))>>
    ELSE <<>>

\* free(files); if (decompressed) free(decompressed); free(resp);
release(p) ==
    <<Ev("free", "files")>>
        \o (IF p.out_decompressed # "NULL" THEN <<Ev("free", "decompressed")>>
            ELSE <<>>)
        \o <<Ev("free", "resp")>>

\* network_get, malloc of files and bundle_parse, common to both
fetch_events(p) ==
    <<Ev("alloc", "resp"), Ev("alloc", "files"), Ev("read", "resp")>>
        \o (IF p.out_decompressed # "NULL" THEN <<Ev("alloc", "decompressed")>>
            ELSE <<>>)

\* the buffer events of download_title, in program order
download_title_events(p, e) ==
    IF e.net = "fail" THEN <<>>
    ELSE IF e.status # 200 THEN <<Ev("alloc", "resp"), Ev("free", "resp")>>
    ELSE IF p.rc < 0 THEN fetch_events(p) \o release(p)
    ELSE fetch_events(p) \o file_reads(p)
            \o (IF e.write = "open_fail" THEN <<>> ELSE file_reads(p))
            \o release(p)

\* the buffer events of sync_download_history, in program order; ok is the
\* result of the write
sync_download_history_events(p, e, ok) ==
    IF e.net = "fail" THEN <<>>
    ELSE IF e.status # 200 THEN <<Ev("alloc", "resp"), Ev("free", "resp")>>
    ELSE IF p.rc < 0 THEN fetch_events(p) \o release(p)
    ELSE fetch_events(p)
            \o (IF e.write = "open_fail" THEN <<>> ELSE file_reads(p))
            \o release(p)
            \o (IF ok THEN file_reads(p) ELSE <<>>)

\* What a pass over the released files array can find: the sizes and data
\* as they were left, or whatever the allocator or a later owner put there.
Stale(files) == {files} \cup [DOMAIN files -> {<<>>, <<0>>}]

\* how a call ended, with what it did
Ended(fate, o) == [fate |-> fate, o |-> o]

\* sync_download_history(config, title, timestamp, progress); srv[id] is the
\* history version asked for.  The hash is computed from files after
\* free(files): the outcomes are those of a read of released memory.
sync_download_history(t, st, srv, loc, e) ==
    LET id == t.title_id_hex
        files == CHOOSE f \in srv[id] : TRUE
        wr == write_save(t, loc[id], files, e.write)
        now == [loc EXCEPT ![id] = wr.now]
    IN  IF e.net = "fail" THEN
            {Ended("returned", Outcome("SYNC_ERR_NETWORK", "network", st, srv, loc,
                                       <<>>, FALSE, FALSE, IO(-1, -1)))}
        ELSE IF srv[id] = {} \/ e.status # 200 THEN
            {Ended("returned", Outcome("SYNC_ERR_SERVER", "server", st, srv, loc,
                                       <<>>, FALSE, FALSE, IO(-1, -1)))}
        ELSE IF e.parse = "bad" THEN
            {Ended("returned", Outcome("SYNC_ERR_BUNDLE", "parse", st, srv, loc,
                                       <<>>, FALSE, FALSE, IO(-1, -1)))}
        ELSE IF ~wr.ok THEN
            {Ended("returned", Outcome("SYNC_ERR_ARCHIVE", wr.step, st, srv, now,
                                       <<>>, FALSE, FALSE, IO(-1, -1)))}
        ELSE
            {Ended("returned",
                   Outcome("SYNC_OK", wr.step,
                           save_last_synced_hash(st, id,
                               bundle_compute_save_hash(f), e.st),
                           srv, now,
                           IF wr.step = "none" THEN Concat(wr.now) ELSE <<>>,
                           wr.step = "none", FALSE, IO(-1, -1))) :
                f \in Stale(files)}
            \cup (IF Len(files) > 0
                  THEN {Ended("crashed",
                              Outcome("-", wr.step, st, srv, now, <<>>, FALSE,
                                      FALSE, IO(-1, -1)))}
                  ELSE {})

\* ---- the two operations on a bundle as received
FetchOps == {"download_title", "sync_download_history"}

\* the title the operation is for
FetchIds == {1}

FetchEnv ==
    {e \in [net : {"ok", "fail"}, status : {200, 500}, write : WriteEnv,
            st : StoreEnv] :
        /\ e.net = "fail" => e.status = 200
        /\ (e.net = "fail" \/ e.status # 200) => e.write = "ok"
        /\ (e.net = "fail" \/ e.status # 200
                \/ e.write \in {"open_fail", "write_fail"}) => e.st = "ok"}

\* the bundles received: well-formed ones and ones bundle_parse rejects
FetchBundles ==
    {r \in GoodBundles : Len(r.bytes) <= 100} \cup BadStreamBundles \cup ShortBundles

\* the outcome of bundle_parse as DownEnv has it
parse_env(e, p) ==
    [net |-> e.net, status |-> e.status,
     parse |-> IF p.rc < 0 THEN "bad" ELSE "ok", write |-> e.write, st |-> e.st]

InitFetch ==
    /\ \E op \in FetchOps, kind \in Kinds, e \in FetchEnv, r \in FetchBundles,
             t \in FetchIds :
          /\ local \in [AllIds -> {<<>>, <<LocalData>>, <<cart_image(LocalData)>>}]
          /\ \A id \in AllIds :
                IF id = t THEN local[id] \in LocalSaves(kind)
                ELSE local[id] = <<>>
          /\ arg = [op |-> op, defect |-> r.arg.defect, max_files |-> MaxFiles,
                    title |-> TitleInfo(t, kind, local), e |-> e]
          /\ wire = [ready |-> TRUE, bytes |-> r.bytes]
    /\ out = NoOut
    /\ client = "3ds"
    /\ titles = <<>> /\ state = <<>>
    /\ store \in {[id \in AllIds |-> EMPTY_STR],
                  [id \in AllIds |-> sha256_hex(LocalData)]}
    /\ server = [id \in AllIds |-> {}]
    /\ pc = "idle" /\ i = 1
    /\ hash_cache = <<>> /\ json = <<>> /\ plan = <<>> /\ arr = 0
    /\ ids = NoIds /\ summary = NewSummary /\ ret = "-" /\ log = <<>>
    /\ last = [op |-> "-"]
    /\ details = NoDecision /\ action = "-"

\* the data of the decoded files: what their data pointers and sizes cover
decoded_files(p) ==
    [n \in DOMAIN p.files |->
        SubSeq(p.payload, u32_index(p.files[n].at) + 1,
               u32_index(p.files[n].at) + u32_index(p.files[n].size))]

\* the server's answer, as the save it decodes to
Served(t, p) ==
    [id \in AllIds |->
        IF id = t.title_id_hex /\ p.rc >= 0 THEN {decoded_files(p)} ELSE {}]

FetchDownloadTitle ==
    /\ arg.op = "download_title" /\ out = NoOut
    /\ \E p \in {bundle_parse(wire.bytes, arg.max_files)} :
       \E o \in {download_title(arg.title, store, Served(arg.title, p), local,
                                parse_env(arg.e, p))} :
          /\ out' = [fate |-> "returned", res |-> o.res, parsed |-> p.rc,
                     events |-> download_title_events(p, arg.e)]
          /\ store' = o.store
          /\ local' = o.local
    /\ UNCHANGED <<client, titles, state, server, pc, i, hash_cache, json, plan,
                   arr, ids, summary, ret, log, last, decideVars, arg, wire>>

FetchHistory ==
    /\ arg.op = "sync_download_history" /\ out = NoOut
    /\ \E p \in {bundle_parse(wire.bytes, arg.max_files)} :
       \E x \in sync_download_history(arg.title, store, Served(arg.title, p), local,
                                      parse_env(arg.e, p)) :
          /\ out' = [fate |-> x.fate, res |-> x.o.res, parsed |-> p.rc,
                     events |-> sync_download_history_events(
                                    p, arg.e, x.o.res \in {"SYNC_OK", "-"})]
          /\ store' = x.o.store
          /\ local' = x.o.local
    /\ UNCHANGED <<client, titles, state, server, pc, i, hash_cache, json, plan,
                   arr, ids, summary, ret, log, last, decideVars, arg, wire>>

NextFetch == FetchDownloadTitle \/ FetchHistory

SpecFetch == InitFetch /\ [][NextFetch]_vars

\* ---- C21
\* the operation at hand has ended and its buffer events are recorded
Fetched == out # NoOut /\ "events" \in DOMAIN out

\* no buffer is read or released again after its release
InLifetime(evs) ==
    \A m, n \in DOMAIN evs :
        (m < n /\ evs[m].op = "free" /\ evs[n].buf = evs[m].buf)
            => evs[n].op = "alloc"

\* C21: in download_title and in sync_download_history, every use of the
\* decoded files (hashing them, writing them to the medium) comes before the
\* file array, the decompressed buffer and the response are released: no
\* released buffer is read on any path.
C21_UsesBeforeRelease == Fetched => InLifetime(out.events)

\* C21, for download_title alone: its uses all come before the release, and
\* the hash it records is the hash of the decoded files.
C21_DownloadTitleInLifetime ==
    (Fetched /\ arg.op = "download_title") => InLifetime(out.events)

\* ===================================================== the save archive
\* The archive of a title as the FS service shows it: a list of entries in
\* directory order, each a full path ("/a", "/d/c"; 47 is '/'), whether it
\* is a directory, and for a file its bytes.
SLASH == <<47>>

FsEntry(path, dir, data) == [path |-> path, dir |-> dir, data |-> data]

\* the directory an entry is listed in
parent_dir(path) ==
    LET cut == CHOOSE k \in DOMAIN path :
                  path[k] = 47 /\ \A m \in (k + 1)..Len(path) : path[m] # 47
    IN  IF cut = 1 THEN SLASH ELSE SubSeq(path, 1, cut - 1)

\* FSUSER_OpenDirectory and FSDIR_Read until no entry is left
listing(ar, dir_path) ==
    LET InDir(x) == parent_dir(x.path) = dir_path
    IN  SelectSeq(ar, InDir)

\* one FS call: its name, the path it is for, whether it succeeded
Call(name, path, ok) == [call |-> name, path |-> path, ok |-> ok]

\* ---- archive_read
\* What the FS service does to one read: e.archive is whether the archive
\* opens, e.bad a path (or <<>> for none) and e.how what goes wrong there:
\* "open_fail" (FSUSER_OpenDirectory or FSUSER_OpenFile fails), "read_fail"
\* (FSFILE_Read fails) or "short" (FSFILE_Read returns fewer bytes).
fault(e, path) == IF e.bad = path THEN e.how ELSE "ok"

\* the entry loop of read_dir (archive.c:32-83) and read_dir itself
RECURSIVE read_entries(_, _, _, _, _)
RECURSIVE read_dir(_, _, _, _, _)
read_entries(ar, entries, files, max_files, e) ==
    IF entries = <<>> THEN files
    ELSE IF Len(files) >= max_files THEN files
    ELSE LET x == Head(entries)
             how == fault(e, x.path)
             rest == Tail(entries)
         IN  IF x.dir
             THEN read_entries(ar, rest,
                               read_dir(ar, x.path, files, max_files, e),
                               max_files, e)
             ELSE IF how \in {"open_fail", "read_fail"}
             THEN read_entries(ar, rest, files, max_files, e)
             ELSE read_entries(ar, rest,
                      Append(files,
                          ArchiveFile(Tail(x.path),
                              IF how = "short"
                              THEN SubSeq(x.data, 1, Len(x.data) - 1)
                              ELSE x.data)),
                      max_files, e)

read_dir(ar, dir_path, files, max_files, e) ==
    IF fault(e, dir_path) = "open_fail" THEN files
    ELSE read_entries(ar, listing(ar, dir_path), files, max_files, e)

\* archive_read(title_id, media_type, files, max_files)
archive_read(ar, max_files, e) ==
    IF e.archive = "fail" THEN [rc |-> -1, files |-> <<>>]
    ELSE LET got == read_dir(ar, SLASH, <<>>, max_files, e)
         IN  [rc |-> Len(got), files |-> got]

\* ---- archive_write
\* the result of a step: the archive as it is now and the calls made
Step(ar, calls) == [ar |-> ar, calls |-> calls]

has_entry(ar, path) == \E n \in DOMAIN ar : ar[n].path = path

remove_entry(ar, path) ==
    LET Other(x) == x.path # path
    IN  SelectSeq(ar, Other)

\* clear_dir: deletes what the directory lists, directories after their
\* contents.  e.clear = "fail": FSUSER_OpenDirectory fails for the root
\* directory, and nothing is done.
RECURSIVE clear_entries(_, _, _)
RECURSIVE clear_dir(_, _, _)
clear_entries(s, entries, e) ==
    IF entries = <<>> THEN s
    ELSE LET x == Head(entries)
             in == IF x.dir THEN clear_dir(s, x.path, e) ELSE s
             del == IF x.dir THEN "DeleteDirectory" ELSE "DeleteFile"
         IN  clear_entries(Step(remove_entry(in.ar, x.path),
                                Append(in.calls, Call(del, x.path, TRUE))),
                           Tail(entries), e)

clear_dir(s, dir_path, e) ==
    IF e.clear = "fail" /\ dir_path = SLASH
    THEN Step(s.ar, Append(s.calls, Call("OpenDirectory", dir_path, FALSE)))
    ELSE clear_entries(Step(s.ar, Append(s.calls,
                                         Call("OpenDirectory", dir_path, TRUE))),
                       listing(s.ar, dir_path), e)

\* ensure_parent_dirs: FSUSER_CreateDirectory for each prefix of the path
\* that ends before a '/', from position p on
RECURSIVE ensure_parent_dirs(_, _, _)
ensure_parent_dirs(s, path, p) ==
    IF p > Len(path) THEN s
    ELSE IF path[p] # 47 THEN ensure_parent_dirs(s, path, p + 1)
    ELSE LET d == SubSeq(path, 1, p - 1)
             made == ~has_entry(s.ar, d)
         IN  ensure_parent_dirs(
                 Step(IF made THEN Append(s.ar, FsEntry(d, TRUE, <<>>)) ELSE s.ar,
                      Append(s.calls, Call("CreateDirectory", d, made))),
                 path, p + 1)

\* What the FS service does to one write: whether the archive opens, whether
\* the root directory opens for clearing, the file (0: none) at which
\* e.how goes wrong ("open_fail": FSUSER_OpenFile fails; "write_fail":
\* FSFILE_Write fails; "short": it writes fewer bytes), and whether the
\* commit works.
WriteFaults ==
    {e \in [archive : {"ok", "fail"}, clear : {"ok", "fail"}, file : 0..MaxFiles,
            how : {"open_fail", "write_fail", "short"}, commit : {"ok", "fail"}] :
        /\ e.archive = "fail" => (e.clear = "ok" /\ e.file = 0)
        /\ e.file = 0 => e.how = "open_fail"
        /\ (e.archive = "fail" \/ e.file # 0) => e.commit = "ok"}

\* the result of archive_write: what it returned, the archive as written,
\* the FS calls in order
Written(ok, s) == [ok |-> ok, ar |-> s.ar, calls |-> s.calls]

\* one turn of the file loop (archive.c:172-198): ok is whether the loop
\* goes on; when it does not, the archive has been closed
write_file(s, f, k, e) ==
    LET path == SLASH \o f.path
        pd == ensure_parent_dirs(s, path, 2)
        bytes == file_bytes(f)
        hit == IF e.file = k THEN e.how ELSE "ok"
        made == Step(IF has_entry(pd.ar, path) THEN pd.ar
                     ELSE Append(pd.ar, FsEntry(path, FALSE, <<>>)),
                     Append(pd.calls,
                            Call("CreateFile", path, ~has_entry(pd.ar, path))))
        wrote == IF hit = "write_fail" THEN <<>>
                 ELSE IF hit = "short" THEN SubSeq(bytes, 1, Len(bytes) - 1)
                 ELSE bytes
        put == [n \in DOMAIN made.ar |->
                   IF made.ar[n].path = path
                   THEN FsEntry(path, FALSE, wrote) ELSE made.ar[n]]
    IN  IF hit = "open_fail" THEN
            Written(FALSE, Step(made.ar,
                made.calls \o <<Call("OpenFile", path, FALSE),
                                Call("CloseArchive", SLASH, TRUE)>>))
        ELSE IF hit \in {"write_fail", "short"} THEN
            Written(FALSE, Step(put,
                made.calls \o <<Call("OpenFile", path, TRUE),
                                Call("Write", path, FALSE),
                                Call("Close", path, TRUE),
                                Call("CloseArchive", SLASH, TRUE)>>))
        ELSE Written(TRUE, Step(put,
                made.calls \o <<Call("OpenFile", path, TRUE),
                                Call("Write", path, TRUE),
                                Call("Close", path, TRUE)>>))

\* the end of archive_write with the archive closed before the commit
commit_after_close(s, e) ==
    Written(TRUE, Step(s.ar,
        s.calls \o <<Call("CloseArchive", SLASH, TRUE),
                     Call("ControlArchive", SLASH, e.commit = "ok")>>))

\* the end of archive_write (archive.c:200-204): the commit, whose result
\* is not looked at, the close, return true
commit_and_close(s, e) ==
    Written(TRUE, Step(s.ar,
        s.calls \o <<Call("ControlArchive", SLASH, e.commit = "ok"),
                     Call("CloseArchive", SLASH, TRUE)>>))

\* the file loop of archive_write from file k on, and what follows it
RECURSIVE write_files(_, _, _, _)
write_files(s, files, k, e) ==
    IF k > Len(files) THEN commit_and_close(s, e)
    ELSE LET w == write_file(s, files[k], k, e)
         IN  IF ~w.ok THEN w
             ELSE write_files(Step(w.ar, w.calls), files, k + 1, e)

\* archive_write(title_id, media_type, files, file_count), call by call
archive_write_calls(ar, files, e) ==
    IF e.archive = "fail"
    THEN Written(FALSE, Step(ar, <<Call("OpenArchive", SLASH, FALSE)>>))
    ELSE write_files(clear_dir(Step(ar, <<Call("OpenArchive", SLASH, TRUE)>>),
                               SLASH, e),
                     files, 1, e)

\* ---- archives, file lists and faults
ArData == {<<>>, <<7>>, <<8, 7>>}

FileAt(path, data) == FsEntry(SLASH \o path, FALSE, data)
DirAt(path) == FsEntry(SLASH \o path, TRUE, <<>>)

\* "/a", "/b"; "/d" with "/d/c"; "/d/e" with "/d/e/c"
Archives ==
    {<<>>, <<DirAt(<<100>>)>>}
    \cup {<<FileAt(<<97>>, d)>> : d \in ArData}
    \cup {<<FileAt(<<97>>, d), FileAt(<<98>>, <<7>>)>> : d \in ArData}
    \cup {<<DirAt(<<100>>), FileAt(<<100, 47, 99>>, d)>> : d \in ArData}
    \cup {<<FileAt(<<97>>, d), DirAt(<<100>>), FileAt(<<100, 47, 99>>, <<7>>)>> :
            d \in ArData}
    \cup {<<DirAt(<<100>>), DirAt(<<100, 47, 101>>),
            FileAt(<<100, 47, 101, 47, 99>>, d), FileAt(<<98>>, <<8, 7>>)>> :
            d \in ArData}
    \cup {<<FileAt(<<97>>, <<7>>), FileAt(<<98>>, <<>>), DirAt(<<100>>),
            FileAt(<<100, 47, 99>>, <<8, 7>>)>>}

ReadFaults(ar) ==
    {[archive |-> "fail", bad |-> <<>>, how |-> "ok"],
     [archive |-> "ok", bad |-> <<>>, how |-> "ok"],
     [archive |-> "ok", bad |-> SLASH, how |-> "open_fail"]}
    \cup {[archive |-> "ok", bad |-> ar[n].path, how |-> h] :
            n \in DOMAIN ar, h \in {"open_fail"}}
    \cup {[archive |-> "ok", bad |-> ar[n].path, how |-> "read_fail"] :
            n \in {m \in DOMAIN ar : ~ar[m].dir}}
    \cup {[archive |-> "ok", bad |-> ar[n].path, how |-> "short"] :
            n \in {m \in DOMAIN ar : ~ar[m].dir /\ ar[m].data # <<>>}}

\* the files a download hands to archive_write: distinct paths
WritePaths == {<<97>>, <<100, 47, 99>>, <<100, 47, 101, 47, 99>>}

WriteLists ==
    {fl \in UNION {[1..m -> {ArchiveFile(p, d) : p \in WritePaths, d \in ArData}] :
                      m \in 0..MaxFiles} :
        \A m, n \in DOMAIN fl : m # n => fl[m].path # fl[n].path}

ArchiveArgs ==
    {[op |-> "archive_read", ar |-> ar, max_files |-> MaxFiles, e |-> e] :
        ar \in Archives, e \in UNION {ReadFaults(a) : a \in Archives}}
    \cup {[op |-> "archive_write", ar |-> ar, files |-> fl, e |-> e] :
            ar \in {a \in Archives : Len(a) <= 3}, fl \in WriteLists,
            e \in WriteFaults}

InitArchive ==
    /\ arg \in ArchiveArgs
    /\ arg.op = "archive_read" => arg.e \in ReadFaults(arg.ar)
    /\ arg.op = "archive_write" =>
          /\ arg.e.file <= Len(arg.files)
          /\ (arg.e.file > 0 /\ arg.e.how = "short")
                => arg.files[arg.e.file].data # <<>>
    /\ wire = NoWire /\ out = NoOut
    /\ details = NoDecision /\ action = "-"
    /\ client = "3ds"
    /\ titles = <<>> /\ state = <<>>
    /\ local = [id \in AllIds |-> <<>>]
    /\ store = [id \in AllIds |-> EMPTY_STR]
    /\ server = [id \in AllIds |-> {}]
    /\ pc = "idle" /\ i = 1
    /\ hash_cache = <<>> /\ json = <<>> /\ plan = <<>> /\ arr = 0
    /\ ids = NoIds /\ summary = NewSummary /\ ret = "-" /\ log = <<>>
    /\ last = [op |-> "-"]

ArchiveRead ==
    /\ arg.op = "archive_read" /\ out = NoOut
    /\ \E r \in {archive_read(arg.ar, arg.max_files, arg.e)} :
          out' = [fate |-> "returned", rc |-> r.rc, files |-> r.files]
    /\ UNCHANGED <<arg, wire, syncVars, decideVars>>

ArchiveWrite ==
    /\ arg.op = "archive_write" /\ out = NoOut
    /\ \E w \in {archive_write_calls(arg.ar, arg.files, arg.e)} :
          out' = [fate |-> "returned", ok |-> w.ok, ar |-> w.ar,
                  calls |-> w.calls]
    /\ UNCHANGED <<arg, wire, syncVars, decideVars>>

NextArchive == ArchiveRead \/ ArchiveWrite

SpecArchive == InitArchive /\ [][NextArchive]_vars

\* ---- C22
\* archive_write has returned
Wrote == out # NoOut /\ arg.op = "archive_write"

\* the calls of a kind, as positions in the call list
CallsOf(names) == {n \in DOMAIN out.calls : out.calls[n].call \in names}

\* an FS call whose failure the claim names did fail
WriteFailed ==
    \E n \in CallsOf({"OpenArchive", "OpenFile", "Write", "ControlArchive"}) :
        ~out.calls[n].ok

\* C22: archive_write reports failure whenever the archive cannot be
\* opened, a file cannot be written completely, or the commit fails; it
\* returns success only when every file was written and the commit succeeded.
C22_FailureReported == Wrote => (out.ok <=> ~WriteFailed)

\* C22, without the commit: a failed open of the archive or of a file and a
\* failed or short write do make archive_write return false.
C22_OpenAndWriteFailuresReported ==
    Wrote =>
        (out.ok <=> \A n \in CallsOf({"OpenArchive", "OpenFile", "Write"}) :
                        out.calls[n].ok)


\* ---- C23
EraseCalls == {"OpenDirectory", "DeleteFile", "DeleteDirectory"}
FileCalls == {"CreateDirectory", "CreateFile", "OpenFile", "Write", "Close"}

\* the paths written, in call order
RECURSIVE PathsOf(_, _)
PathsOf(calls, name) ==
    IF calls = <<>> THEN <<>>
    ELSE (IF Head(calls).call = name THEN <<Head(calls).path>> ELSE <<>>)
            \o PathsOf(Tail(calls), name)

ReadDone == out # NoOut /\ arg.op = "archive_read"

\* a regular file of the archive and a returned file, as path and bytes
RegularFiles ==
    {[path |-> Tail(arg.ar[n].path), data |-> arg.ar[n].data] :
        n \in {m \in DOMAIN arg.ar : ~arg.ar[m].dir}}

ReturnedFiles ==
    {[path |-> out.files[n].path, data |-> file_bytes(out.files[n])] :
        n \in DOMAIN out.files}

\* the archive, a directory or a file could not be opened or read in full
ReadFailed == arg.e.archive = "fail" \/ arg.e.bad # <<>>

\* C24: archive_read returns either the complete list of the regular files
\* of the archive or a failure: if the archive or a directory cannot be
\* opened, or a file cannot be opened or read, it reports failure and does
\* not return a shorter list as a success.
C24_CompleteOrFailure ==
    ReadDone =>
        /\ ReadFailed => out.rc < 0
        /\ out.rc >= 0 =>
              (out.rc = Cardinality(RegularFiles) /\ ReturnedFiles = RegularFiles)

\* C24, with nothing going wrong and no more files than max_files: the list
\* returned is the complete one; and a failed open of the archive is reported.
C24_CompleteWithoutFaults ==
    ReadDone =>
        /\ arg.e.archive = "fail" => out.rc < 0
        /\ (~ReadFailed /\ Cardinality(RegularFiles) <= arg.max_files) =>
              (out.rc = Cardinality(RegularFiles) /\ ReturnedFiles = RegularFiles)


\* ===================================================== the state files
\* state/{TITLE_ID_HEX}.txt, character by character.  A file is whether it
\* exists and its text (character codes); the directory maps each title to
\* its file.
HASH_LEN == 64

StateFile(exists, text) == [exists |-> exists, text |-> text]
NoFile == StateFile(FALSE, <<>>)

\* (c >= '0' && c <= '9') || (c >= 'a' && c <= 'f') || (c >= 'A' && c <= 'F')
IsHexChar(c) ==
    \/ c >= 48 /\ c <= 57
    \/ c >= 97 /\ c <= 102
    \/ c >= 65 /\ c <= 70

\* fread(buf, 1, 64, f): the characters read
fread(text, n) == SubSeq(text, 1, IF Len(text) < n THEN Len(text) ELSE n)

Loaded(ok, hash) == [ok |-> ok, hash |-> hash]

\* load_last_synced_hash (3DS) and sync_load_last_hash (DS).  e: "ok", or
\* "dir_fail" when ensure_state_dir fails (DS).
sync_load_last_hash(disk, id, e) ==
    LET buf == fread(disk[id].text, HASH_LEN)
    IN  IF e = "dir_fail" \/ ~disk[id].exists THEN Loaded(FALSE, <<>>)
        ELSE IF Len(buf) # HASH_LEN THEN Loaded(FALSE, <<>>)
        ELSE IF \E n \in 1..HASH_LEN : ~IsHexChar(buf[n]) THEN Loaded(FALSE, <<>>)
        ELSE Loaded(TRUE, buf)

\* save_last_synced_hash (3DS) and sync_save_last_hash (DS): fopen "w"
\* empties the file, fwrite puts 64 characters of the hash.  e.w is "ok",
\* "open_fail", "short" with e.n < 64 characters written, or "dir_fail".
sync_save_last_hash(disk, id, hash, e) ==
    IF e.w \in {"dir_fail", "open_fail"} THEN [ok |-> FALSE, disk |-> disk]
    ELSE IF e.w = "short"
    THEN [ok |-> FALSE,
          disk |-> [disk EXCEPT ![id] = StateFile(TRUE, SubSeq(hash, 1, e.n))]]
    ELSE [ok |-> TRUE,
          disk |-> [disk EXCEPT ![id] = StateFile(TRUE, SubSeq(hash, 1, HASH_LEN))]]

\* ---- state files and hashes to try
\* 64 characters: c, with d at position k
Text64(c, k, d) == [n \in 1..HASH_LEN |-> IF n = k THEN d ELSE c]

\* "0123456789abcdefABCDEF" repeated
MixedHash ==
    LET digits == <<48, 49, 50, 51, 52, 53, 54, 55, 56, 57, 97, 98, 99, 100,
                    101, 102, 65, 66, 67, 68, 69, 70>>
    IN  [n \in 1..HASH_LEN |-> digits[((n - 1) % 22) + 1]]

ValidHashes == {Text64(48, 1, 48), Text64(102, 64, 57), MixedHash}

\* characters next to the hex ranges, and a few others
OtherChars == {47, 58, 64, 71, 96, 103, 32, 10, 0}

StateFiles ==
    {NoFile}
    \cup {StateFile(TRUE, h) : h \in ValidHashes}
    \cup {StateFile(TRUE, SubSeq(MixedHash, 1, n)) : n \in {0, 1, 32, 63}}
    \cup {StateFile(TRUE, MixedHash \o t) :
            t \in {<<10>>, <<48>>, <<103>>, MixedHash}}
    \cup {StateFile(TRUE, Text64(97, k, d)) : k \in {1, 2, 33, 64}, d \in OtherChars}

Disks ==
    {d \in [AllIds -> StateFiles] :
        \A id \in AllIds : id # 1 => d[id] \in {NoFile, StateFile(TRUE, MixedHash)}}

SaveFaults ==
    {[w |-> x, n |-> 0] : x \in {"ok", "open_fail", "dir_fail"}}
    \cup {[w |-> "short", n |-> k] : k \in {0, 1, 63}}

StateArgs ==
    {[op |-> "load", id |-> id, disk |-> d, e |-> e] :
        id \in AllIds, d \in Disks, e \in {"ok", "dir_fail"}}
    \cup {[op |-> "save", id |-> id, disk |-> d, hash |-> h, e |-> e] :
            id \in {1, 2},
            d \in {x \in Disks : x[1] \in {NoFile, StateFile(TRUE, MixedHash),
                                           StateFile(TRUE, <<97>>)}},
            h \in ValidHashes, e \in SaveFaults}

InitState ==
    /\ arg \in StateArgs
    /\ wire = NoWire /\ out = NoOut
    /\ details = NoDecision /\ action = "-"
    /\ client \in {"3ds", "ds"}
    /\ (client = "3ds" /\ arg.op = "load") => arg.e = "ok"
    /\ (client = "3ds" /\ arg.op = "save") => arg.e.w # "dir_fail"
    /\ titles = <<>> /\ state = <<>>
    /\ local = [id \in AllIds |-> <<>>]
    /\ store = [id \in AllIds |-> EMPTY_STR]
    /\ server = [id \in AllIds |-> {}]
    /\ pc = "idle" /\ i = 1
    /\ hash_cache = <<>> /\ json = <<>> /\ plan = <<>> /\ arr = 0
    /\ ids = NoIds /\ summary = NewSummary /\ ret = "-" /\ log = <<>>
    /\ last = [op |-> "-"]

\* a load from the directory as given
StateLoad ==
    /\ arg.op = "load" /\ out = NoOut
    /\ \E r \in {sync_load_last_hash(arg.disk, arg.id, arg.e)} :
          out' = [fate |-> "loaded", id |-> arg.id, ok |-> r.ok, hash |-> r.hash,
                  disk |-> arg.disk]
    /\ UNCHANGED <<arg, wire, syncVars, decideVars>>

\* a save
StateSave ==
    /\ arg.op = "save" /\ out = NoOut
    /\ \E r \in {sync_save_last_hash(arg.disk, arg.id, arg.hash, arg.e)} :
          out' = [fate |-> "saved", id |-> arg.id, ok |-> r.ok, hash |-> <<>>,
                  disk |-> r.disk]
    /\ UNCHANGED <<arg, wire, syncVars, decideVars>>

\* a load of some title after the save
StateLoadAfterSave ==
    /\ arg.op = "save" /\ out # NoOut /\ out.fate = "saved"
    /\ \E id \in AllIds :
       \E r \in {sync_load_last_hash(out.disk, id, "ok")} :
          out' = [fate |-> "reloaded", id |-> id, ok |-> r.ok, hash |-> r.hash,
                  disk |-> out.disk, saved |-> out.ok]
    /\ UNCHANGED <<arg, wire, syncVars, decideVars>>

NextState == StateLoad \/ StateSave \/ StateLoadAfterSave

SpecState == InitState /\ [][NextState]_vars

\* ---- C25
\* a load has returned, for the file given
LoadDone == out # NoOut /\ out.fate \in {"loaded", "reloaded"}
LoadedFile == out.disk[out.id]

AllHex(text) == \A n \in DOMAIN text : IsHexChar(text[n])

\* the load of a title before the save, nothing going wrong
LoadBefore(id) == sync_load_last_hash(arg.disk, id, "ok")

\* after a save that worked, the saved title loads as the hash saved and
\* every other title as before
SaveThenLoad ==
    (out # NoOut /\ out.fate = "reloaded" /\ out.saved) =>
        IF out.id = arg.id THEN out.ok /\ out.hash = arg.hash
        ELSE [ok |-> out.ok, hash |-> out.hash] = LoadBefore(out.id)

\* C25: a load returns a hash only when the state file exists and holds
\* exactly 64 characters, all hex digits, and then returns them; for a
\* missing file, a file of any other length, shorter or longer, or one with
\* a character that is no hex digit it returns absent; and after
\* save(title, h), load(title) returns h and the load of every other title
\* is unchanged.
C25_LoadExactly64Hex ==
    /\ LoadDone =>
          /\ out.ok => /\ LoadedFile.exists
                       /\ Len(LoadedFile.text) = HASH_LEN
                       /\ AllHex(LoadedFile.text)
                       /\ out.hash = LoadedFile.text
          /\ (~LoadedFile.exists \/ Len(LoadedFile.text) # HASH_LEN
                \/ ~AllHex(LoadedFile.text)) => ~out.ok
    /\ SaveThenLoad

\* C25, for what the load does with a longer file: it returns a hash only
\* when the file exists and its first 64 characters are there and are hex
\* digits, and returns those; for a missing file, a shorter file or a
\* non-hex character among the first 64 it returns absent; with the
\* directory at hand such a file does load; and a save is read back.
C25_LoadFirst64Hex ==
    /\ LoadDone =>
          LET head == SubSeq(LoadedFile.text, 1, HASH_LEN)
              good == /\ LoadedFile.exists
                      /\ Len(LoadedFile.text) >= HASH_LEN
                      /\ AllHex(head)
          IN  /\ out.ok => (good /\ out.hash = head)
              /\ ~good => ~out.ok
              /\ (good /\ (out.fate = "reloaded" \/ arg.e = "ok")) => out.ok
    /\ SaveThenLoad


\* ================================================ the cartridge save chip
\* card_spi.c drives the save chip of an NDS cartridge through SPI
\* transactions.  ---- card_spi.c:6-28
CMD_RDSR == 5
CMD_READ == 3
CMD_WREN == 6
CMD_WRITE == 2
CMD_SE == 216
SR_WIP == 1
FLASH_PAGE_SIZE == 256
FLASH_SECTOR_SIZE == 65536
EEPROM_PAGE_8K == 32
EEPROM_PAGE_64K == 128
EEPROM_PAGE_128K == 128
EEPROM_PAGE_512B == 16
SPI_CHUNK_SIZE == 256
WIP_TIMEOUT_PROGRAM == 50
WIP_TIMEOUT_ERASE == 3000

FlashTypes == {"FLASH_256K", "FLASH_512K", "FLASH_1M", "FLASH_8M"}
EepromTypes == {"EEPROM_512B", "EEPROM_8K", "EEPROM_64K", "EEPROM_128K"}
SaveTypes == EepromTypes \cup FlashTypes \cup {"FRAM_32K"}

card_spi_get_size(type) ==
    CASE type = "EEPROM_512B" -> 512
      [] type = "EEPROM_8K" -> 8 * 1024
      [] type = "EEPROM_64K" -> 64 * 1024
      [] type = "EEPROM_128K" -> 128 * 1024
      [] type = "FLASH_256K" -> 256 * 1024
      [] type = "FLASH_512K" -> 512 * 1024
      [] type = "FLASH_1M" -> 1024 * 1024
      [] type = "FLASH_8M" -> 8 * 1024 * 1024
      [] type = "FRAM_32K" -> 32 * 1024
      [] OTHER -> 0

\* ---- the chip
\* The memory of the chip is a list of segments that cover it in address
\* order: len bytes from address at that are "old" (what the chip held),
\* "erased" (0xFF), "junk" (programmed over unerased or wrapped-over data)
\* or "img": the bytes of the image being written from offset src on.  A
\* buffer filled by reads is such a list too.
Seg(at, len, kind, src) == [at |-> at, len |-> len, kind |-> kind, src |-> src]

Min(a, b) == IF a < b THEN a ELSE b
Max(a, b) == IF a > b THEN a ELSE b

\* the part of segment s inside [from, to), as a list of none or one
clip(s, from, to) ==
    LET lo == Max(s.at, from)
        hi == Min(s.at + s.len, to)
    IN  IF lo >= hi THEN <<>>
        ELSE <<Seg(lo, hi - lo, s.kind,
                   IF s.kind = "img" THEN s.src + (lo - s.at) ELSE 0)>>

RECURSIVE clip_all(_, _, _)
clip_all(mem, from, to) ==
    IF mem = <<>> THEN <<>>
    ELSE clip(Head(mem), from, to) \o clip_all(Tail(mem), from, to)

\* adjacent segments that continue each other made one
RECURSIVE merge(_)
merge(mem) ==
    IF Len(mem) < 2 THEN mem
    ELSE LET a == mem[1]
             b == mem[2]
         IN  IF a.kind = b.kind /\ (a.kind = "img" => b.src = a.src + a.len)
             THEN merge(<<Seg(a.at, a.len + b.len, a.kind, a.src)>>
                            \o SubSeq(mem, 3, Len(mem)))
             ELSE <<a>> \o merge(Tail(mem))

\* the memory with [at, at + len) replaced by one segment
put(mem, size, at, len, kind, src) ==
    IF len = 0 THEN mem
    ELSE merge(clip_all(mem, 0, at)
                   \o <<Seg(at, len, kind, IF kind = "img" THEN src ELSE 0)>>
                   \o clip_all(mem, at + len, size))

\* whether [at, at + len) is all erased
erased(mem, at, len) ==
    \A n \in DOMAIN mem :
        clip(mem[n], at, at + len) # <<>> => mem[n].kind = "erased"

\* the page size of the chip itself (0: no pages)
chip_page(type) ==
    CASE type = "EEPROM_512B" -> EEPROM_PAGE_512B
      [] type = "EEPROM_8K" -> EEPROM_PAGE_8K
      [] type = "EEPROM_64K" -> EEPROM_PAGE_64K
      [] type = "EEPROM_128K" -> EEPROM_PAGE_128K
      [] type \in FlashTypes -> FLASH_PAGE_SIZE
      [] OTHER -> 0

\* What the chip takes a command header to mean: the operation and the
\* address.  The 512 B chip has one address byte and bit 8 in bit 3 of the
\* command, the 128 KiB chip two address bytes and bit 16 there, the FLASH
\* chips three address bytes, the others two; the address wraps at the
\* size of the chip.
chip_decode(type, hdr) ==
    LET size == card_spi_get_size(type)
        high == type \in {"EEPROM_512B", "EEPROM_128K"}
        c == hdr[1]
        a8 == IF high THEN (c \div 8) % 2 ELSE 0
        op == IF high /\ c \in {CMD_READ + 8, CMD_WRITE + 8} THEN c - 8 ELSE c
        bytes == IF type = "EEPROM_512B" THEN 1
                 ELSE IF type \in FlashTypes THEN 3 ELSE 2
        addr == IF Len(hdr) # 1 + bytes THEN 0
                ELSE IF bytes = 1 THEN a8 * 256 + hdr[2]
                ELSE IF bytes = 2 THEN a8 * 65536 + hdr[2] * 256 + hdr[3]
                ELSE hdr[2] * 65536 + hdr[3] * 256 + hdr[4]
    IN  [op |-> op, addr |-> addr % size, formed |-> Len(hdr) = 1 + bytes]

\* A program command of len bytes taken from the image at src, on a chip
\* with its write latch set.  Inside a page the bytes land where they are
\* addressed; bytes past the end of the page wrap to its start; a FLASH
\* chip can only program erased bytes.
chip_program(type, mem, hdr, src, len) ==
    LET size == card_spi_get_size(type)
        d == chip_decode(type, hdr)
        p == chip_page(type)
        base == IF p = 0 THEN 0 ELSE d.addr - (d.addr % p)
        room == IF p = 0 THEN size - d.addr ELSE p - (d.addr % p)
        kind == IF type \in FlashTypes /\ ~erased(mem, d.addr, Min(len, room))
                THEN "junk" ELSE "img"
    IN  IF ~d.formed \/ d.op # CMD_WRITE THEN mem
        ELSE IF len <= room THEN put(mem, size, d.addr, len, kind, src)
        ELSE put(mem, size, base, IF p = 0 THEN size ELSE p, "junk", 0)

\* a sector erase: the 64 KiB sector of the address becomes 0xFF
chip_erase(type, mem, hdr) ==
    LET size == card_spi_get_size(type)
        d == chip_decode(type, hdr)
        base == d.addr - (d.addr % FLASH_SECTOR_SIZE)
    IN  IF ~d.formed \/ d.op # CMD_SE \/ type \notin FlashTypes THEN mem
        ELSE put(mem, size, base, Min(FLASH_SECTOR_SIZE, size - base), "erased", 0)

\* a read of len bytes into a buffer at offset to: the bytes from the
\* address on (the reads of the adapter do not run past the end of the chip)
chip_read(type, mem, hdr, to, len) ==
    LET d == chip_decode(type, hdr)
        got == clip_all(mem, d.addr, d.addr + len)
    IN  IF ~d.formed \/ d.op # CMD_READ THEN <<Seg(to, len, "junk", 0)>>
        ELSE [n \in DOMAIN got |->
                 Seg(to + (got[n].at - d.addr), got[n].len, got[n].kind,
                     got[n].src)]


\* ---- the adapter
\* One SPI transaction (spi_cmd): the header bytes, the number of data
\* bytes written and read, whether the transaction succeeded.  The status
\* reads of one wait are kept as one entry with their number.
Tx(hdr, wlen, rlen, ok, count) ==
    [hdr |-> hdr, wlen |-> wlen, rlen |-> rlen, ok |-> ok, count |-> count]

\* What happens when a write command is sent: whether the Write-Enable and
\* the command transactions succeed, and for how many status reads the
\* chip then shows WIP.
IssueEnv(wren, cmd, busy) == [wren |-> wren, cmd |-> cmd, busy |-> busy]

\* the command headers
flash_hdr(cmd, addr) ==
    <<cmd, (addr \div 65536) % 256, (addr \div 256) % 256, addr % 256>>
eeprom_2addr_hdr(cmd, addr) == <<cmd, (addr \div 256) % 256, addr % 256>>
eeprom_128k_hdr(cmd, addr) ==
    <<cmd + ((addr \div 65536) % 2) * 8, (addr \div 256) % 256, addr % 256>>
eeprom_512b_hdr(cmd, addr) == <<cmd + ((addr \div 256) % 2) * 8, addr % 256>>

\* a command sent: whether the adapter goes on to wait, the memory of the
\* chip, for how long the chip is busy, the transactions made, the number
\* of data bytes, the wait limit, whether the chip ignored the command
Issued(ok, mem, busy, tx, chunk, limit, ignored) ==
    [ok |-> ok, mem |-> mem, busy |-> busy, tx |-> tx, chunk |-> chunk,
     limit |-> limit, ignored |-> ignored]

\* a program or erase command sent without a Write-Enable
write_cmd_no_enable(type, mem, hdr, src, len, timeout_ms, v) ==
    Issued(v.cmd = "ok", mem, 0, <<Tx(hdr, len, 0, v.cmd = "ok", 1)>>, len,
           timeout_ms, v.cmd = "ok")

\* spi_write_enable and the program or erase command that follows it.  The
\* result of spi_write_enable is not looked at; a chip whose write latch is
\* not set ignores the command and shows no WIP.
write_cmd(type, mem, hdr, src, len, timeout_ms, v) ==
    LET enable == Tx(<<CMD_WREN>>, 0, 0, v.wren = "ok", 1)
        command == Tx(hdr, len, 0, v.cmd = "ok", 1)
        taken == v.wren = "ok" /\ v.cmd = "ok"
        now == IF ~taken THEN mem
               ELSE IF hdr[1] = CMD_SE THEN chip_erase(type, mem, hdr)
               ELSE chip_program(type, mem, hdr, src, len)
    IN  Issued(v.cmd = "ok", now, IF taken THEN v.busy ELSE 0,
               <<enable, command>>, len, timeout_ms,
               v.wren # "ok" /\ v.cmd = "ok")

\* flash_write_page(addr, data, len) up to its wait
flash_write_page(type, mem, addr, src, len, v) ==
    write_cmd(type, mem, flash_hdr(CMD_WRITE, addr), src,
              IF len > FLASH_PAGE_SIZE THEN FLASH_PAGE_SIZE ELSE len,
              WIP_TIMEOUT_PROGRAM, v)

\* flash_erase_sector(addr) up to its wait
flash_erase_sector(type, mem, addr, v) ==
    write_cmd(type, mem, flash_hdr(CMD_SE, addr), 0, 0, WIP_TIMEOUT_ERASE, v)

eeprom_hdr(form, cmd, a) ==
    IF form = "512b" THEN eeprom_512b_hdr(cmd, a)
    ELSE IF form = "128k" THEN eeprom_128k_hdr(cmd, a)
    ELSE eeprom_2addr_hdr(cmd, a)

\* an EEPROM write loop that sends SPI_CHUNK_SIZE bytes whatever the page
eeprom_write_turn_unpaged(form, type, mem, addr, offset, len, page_size, v) ==
    write_cmd(type, mem, eeprom_hdr(form, CMD_WRITE, addr + offset), offset,
              IF SPI_CHUNK_SIZE > len - offset THEN len - offset
              ELSE SPI_CHUNK_SIZE,
              WIP_TIMEOUT_PROGRAM, v)

\* One turn of the while loop of eeprom_write_2addr, eeprom_write_128k and
\* eeprom_write_512b (form "2addr", "128k", "512b"; the latter two have
\* their page size built in), up to its wait.
eeprom_write_turn(form, type, mem, addr, offset, len, page_size, v) ==
    LET page_offset == (addr + offset) % page_size
        room == page_size - page_offset
        chunk == IF room > len - offset THEN len - offset ELSE room
    IN  write_cmd(type, mem, eeprom_hdr(form, CMD_WRITE, addr + offset),
                  offset, chunk, WIP_TIMEOUT_PROGRAM, v)

\* the write function and page size card_spi_write_save picks for a type
\* that is no FLASH
write_form(type, size) ==
    CASE type = "EEPROM_8K" -> [form |-> "2addr", page_size |-> EEPROM_PAGE_8K]
      [] type = "EEPROM_64K" -> [form |-> "2addr", page_size |-> EEPROM_PAGE_64K]
      [] type = "EEPROM_128K" -> [form |-> "128k", page_size |-> EEPROM_PAGE_128K]
      [] type = "EEPROM_512B" -> [form |-> "512b", page_size |-> EEPROM_PAGE_512B]
      [] OTHER -> [form |-> "2addr", page_size |-> size]

\* a wait that does not count its status reads
spi_wait_wip_turn_unbounded(n, timeout_ms, status_ok, wip) ==
    IF ~status_ok THEN "false" ELSE IF ~wip THEN "true" ELSE "again"

\* One turn of the for loop of spi_wait_wip after n status reads: "false"
\* and "true" are its results, "again" is the sleep before the next turn.
spi_wait_wip_turn(n, timeout_ms, status_ok, wip) ==
    IF n >= timeout_ms THEN "false"
    ELSE IF ~status_ok THEN "false"
    ELSE IF ~wip THEN "true"
    ELSE "again"

\* the read of one chunk in card_spi_read_save
read_chunk(type, mem, offset, chunk, ok) ==
    LET hdr == CASE type = "EEPROM_512B" -> eeprom_512b_hdr(CMD_READ, offset)
                 [] type \in {"EEPROM_8K", "EEPROM_64K", "FRAM_32K"}
                        -> eeprom_2addr_hdr(CMD_READ, offset)
                 [] type = "EEPROM_128K" -> eeprom_128k_hdr(CMD_READ, offset)
                 [] OTHER -> flash_hdr(CMD_READ, offset)
    IN  [ok |-> ok, tx |-> <<Tx(hdr, 0, chunk, ok, 1)>>,
         got |-> IF ok THEN chip_read(type, mem, hdr, offset, chunk) ELSE <<>>]


\* ---- card_spi_write_save and card_spi_read_save, step by step
\* arg is the call: op, type, size, whether the adapter is initialized and
\* whether a buffer is given.  wire is the chip: its memory, for how many
\* more status reads it shows WIP, and whether it has ignored a write
\* command for want of a Write-Enable.  out is the operation: fate ("-",
\* "running", "returned"), phase ("erase", "program", "wait", "read"), the
\* loop variable addr, the data length of the command waited for (chunk),
\* its kind, the number of status reads made (n) and their limit, the
\* transactions since the last command was begun (tx), the result (ret),
\* the buffer read (buf), and whether a successful write came before
\* (wrote).
PartialUpTo == 262144

CardSizes(type) ==
    LET s == card_spi_get_size(type)
    IN  IF s > PartialUpTo THEN {s}
        ELSE {0, 1, s, s + 1}
                 \cup (IF type \in FlashTypes
                       THEN {FLASH_SECTOR_SIZE, FLASH_SECTOR_SIZE + 1} ELSE {})
                 \cup (IF type \in EepromTypes THEN {s - 1} ELSE {})

Chip(mem, busy, ignored) ==
    [ready |-> TRUE, bytes |-> mem, busy |-> busy, ignored |-> ignored]

Op(fate, op, phase, kind, addr, chunk, size, n, limit, tx, res, buf, wrote) ==
    [fate |-> fate, op |-> op, phase |-> phase, kind |-> kind, addr |-> addr,
     chunk |-> chunk, size |-> size, n |-> n, limit |-> limit, tx |-> tx,
     ret |-> res, buf |-> buf, wrote |-> wrote]

\* the operation returns ret
CardReturned(o, res, tx) ==
    [o EXCEPT !.fate = "returned", !.phase = "-", !.ret = res, !.tx = tx]

InitCard ==
    /\ \E t \in SaveTypes \cup {"UNKNOWN"} :
       \E s \in CardSizes(t) :
       \E o \in {"write", "read"} :
       \E b \in [initialized : BOOLEAN, has_buf : BOOLEAN] :
          /\ arg = [op |-> o, type |-> t, size |-> s,
                    initialized |-> b.initialized, has_buf |-> b.has_buf]
          /\ wire = Chip(IF t = "UNKNOWN" THEN <<>>
                         ELSE <<Seg(0, card_spi_get_size(t), "old", 0)>>, 0, FALSE)
    /\ out = NoOut
    /\ details = NoDecision /\ action = "-"
    /\ client = "3ds"
    /\ titles = <<>> /\ state = <<>>
    /\ local = [id \in AllIds |-> <<>>]
    /\ store = [id \in AllIds |-> EMPTY_STR]
    /\ server = [id \in AllIds |-> {}]
    /\ pc = "idle" /\ i = 1
    /\ hash_cache = <<>> /\ json = <<>> /\ plan = <<>> /\ arr = 0
    /\ ids = NoIds /\ summary = NewSummary /\ ret = "-" /\ log = <<>>
    /\ last = [op |-> "-"]

\* the guard both operations begin with (card_spi.c:300-301, 341-342)
card_guard(a) ==
    ~a.initialized \/ a.type = "UNKNOWN" \/ ~a.has_buf \/ a.size = 0

\* card_spi_write_save up to its first command
CardWriteBegin ==
    /\ arg.op = "write" /\ out = NoOut
    /\ LET save_size == card_spi_get_size(arg.type)
           size == IF arg.size > save_size THEN save_size ELSE arg.size
           o == Op("running", "write",
                   IF arg.type \in FlashTypes THEN "erase" ELSE "program",
                   "-", 0, 0, size, 0, 0, <<>>, FALSE, <<>>, FALSE)
       IN  out' = IF card_guard(arg) THEN CardReturned(o, FALSE, <<>>) ELSE o
    /\ UNCHANGED <<arg, wire, syncVars, decideVars>>

\* what may happen to a write command: the chip is slow only at the first
\* command of a loop, a Write-Enable transaction fails only at the last
IssueEnvs(o, step, limit) ==
    {IssueEnv("ok", "ok", b) :
         b \in {0} \cup (IF o.addr = 0 THEN {1, limit - 1, limit} ELSE {})}
        \cup {IssueEnv("ok", "fail", 0)}
        \cup (IF o.addr + step >= o.size THEN {IssueEnv("fail", "ok", 0)}
              ELSE {})

\* the operation after a command was sent: it waits, or returns false
after_issue(o, kind, r) ==
    IF r.ok
    THEN [o EXCEPT !.phase = "wait", !.kind = kind, !.chunk = r.chunk,
                   !.n = 0, !.limit = r.limit, !.tx = r.tx]
    ELSE CardReturned([o EXCEPT !.kind = kind, !.chunk = r.chunk], FALSE, r.tx)

\* one turn of the erase loop of a FLASH write, up to the wait
CardErase ==
    /\ out # NoOut /\ out.fate = "running" /\ out.phase = "erase"
    /\ \E v \in IssueEnvs(out, FLASH_SECTOR_SIZE, WIP_TIMEOUT_ERASE) :
       \E r \in {flash_erase_sector(arg.type, wire.bytes, out.addr, v)} :
          /\ wire' = Chip(r.mem, r.busy, wire.ignored \/ r.ignored)
          /\ out' = after_issue(out, "erase", r)
    /\ UNCHANGED <<arg, syncVars, decideVars>>

\* one turn of the program loop of a FLASH write, up to the wait
CardProgram ==
    /\ out # NoOut /\ out.fate = "running" /\ out.phase = "program"
    /\ arg.type \in FlashTypes
    /\ \E v \in IssueEnvs(out, FLASH_PAGE_SIZE, WIP_TIMEOUT_PROGRAM) :
       \E r \in {flash_write_page(arg.type, wire.bytes, out.addr, out.addr,
                     IF FLASH_PAGE_SIZE > out.size - out.addr
                     THEN out.size - out.addr ELSE FLASH_PAGE_SIZE, v)} :
          /\ wire' = Chip(r.mem, r.busy, wire.ignored \/ r.ignored)
          /\ out' = after_issue(out, "program", r)
    /\ UNCHANGED <<arg, syncVars, decideVars>>

\* one turn of the loop of an EEPROM or FRAM write, up to the wait
CardEepromWrite ==
    /\ out # NoOut /\ out.fate = "running" /\ out.phase = "program"
    /\ arg.type \notin FlashTypes
    /\ \E f \in {write_form(arg.type, out.size)} :
       \E v \in IssueEnvs(out, Min(f.page_size, out.size - out.addr),
                          WIP_TIMEOUT_PROGRAM) :
       \E r \in {eeprom_write_turn(f.form, arg.type, wire.bytes, 0, out.addr,
                                   out.size, f.page_size, v)} :
          /\ wire' = Chip(r.mem, r.busy, wire.ignored \/ r.ignored)
          /\ out' = after_issue(out, "program", r)
    /\ UNCHANGED <<arg, syncVars, decideVars>>

\* a write that erases the first sector only
after_wait_one_sector(o, type, tx) ==
    LET step == IF type \in FlashTypes THEN FLASH_PAGE_SIZE ELSE o.chunk
        next == o.addr + step
    IN  IF o.kind = "erase"
        THEN [o EXCEPT !.phase = "program", !.addr = 0, !.tx = tx]
        ELSE IF next < o.size
        THEN [o EXCEPT !.phase = o.kind, !.addr = next, !.tx = tx]
        ELSE CardReturned([o EXCEPT !.addr = next], TRUE, tx)

\* the operation after a wait that returned true: the loop variable moves
\* on, the erase loop gives way to the program loop, the program loop to
\* return true
after_wait(o, type, tx) ==
    LET step == IF o.kind = "erase" THEN FLASH_SECTOR_SIZE
                ELSE IF type \in FlashTypes THEN FLASH_PAGE_SIZE
                ELSE o.chunk
        next == o.addr + step
    IN  IF next < o.size
        THEN [o EXCEPT !.phase = o.kind, !.addr = next, !.tx = tx]
        ELSE IF o.kind = "erase"
        THEN [o EXCEPT !.phase = "program", !.addr = 0, !.tx = tx]
        ELSE CardReturned([o EXCEPT !.addr = next], TRUE, tx)

\* one turn of spi_wait_wip
CardWait ==
    /\ out # NoOut /\ out.fate = "running" /\ out.phase = "wait"
    /\ \E status_ok \in BOOLEAN :
       \E w \in {spi_wait_wip_turn(out.n, out.limit, status_ok,
                                   wire.busy > 0)} :
          LET read == out.n < out.limit
              n == IF read THEN out.n + 1 ELSE out.n
              tx == IF read
                    THEN SubSeq(out.tx, 1, 2)
                             \o <<Tx(<<CMD_RDSR>>, 0, 1, status_ok, n)>>
                    ELSE out.tx
          IN  /\ (~read => status_ok)
              /\ wire' = IF read /\ status_ok /\ wire.busy > 0
                         THEN Chip(wire.bytes, wire.busy - 1, wire.ignored)
                         ELSE wire
              /\ out' = CASE w = "again" -> [out EXCEPT !.n = n, !.tx = tx]
                          [] w = "true" -> after_wait([out EXCEPT !.n = n],
                                                      arg.type, tx)
                          [] OTHER -> CardReturned([out EXCEPT !.n = n], FALSE, tx)
    /\ UNCHANGED <<arg, syncVars, decideVars>>

\* card_spi_read_save up to its first chunk: of the chip as it was, or
\* after a write that returned true
CardReadBegin ==
    /\ \/ arg.op = "read" /\ out = NoOut
       \/ arg.op = "write" /\ out # NoOut /\ out.fate = "returned"
              /\ out.op = "write" /\ out.ret
    /\ LET save_size == card_spi_get_size(arg.type)
           size == IF arg.op = "read" THEN arg.size ELSE save_size
           o == Op("running", "read", "read", "-", 0, 0, save_size, 0, 0,
                   <<>>, FALSE, <<>>, arg.op = "write")
       IN  out' = IF card_guard(arg) \/ size < save_size
                  THEN CardReturned(o, FALSE, <<>>) ELSE o
    /\ UNCHANGED <<arg, wire, syncVars, decideVars>>

\* one turn of the loop of card_spi_read_save
CardRead ==
    /\ out # NoOut /\ out.fate = "running" /\ out.phase = "read"
    /\ \E ok \in BOOLEAN :
       \E r \in {read_chunk(arg.type, wire.bytes, out.addr,
                            IF SPI_CHUNK_SIZE > out.size - out.addr
                            THEN out.size - out.addr ELSE SPI_CHUNK_SIZE,
                            ok)} :
          LET next == out.addr + r.tx[1].rlen
              o == [out EXCEPT !.chunk = r.tx[1].rlen,
                               !.buf = merge(out.buf \o r.got)]
          IN  out' = IF ~r.ok THEN CardReturned(o, FALSE, r.tx)
                     ELSE IF next < out.size
                     THEN [o EXCEPT !.addr = next, !.tx = r.tx]
                     ELSE CardReturned([o EXCEPT !.addr = next], TRUE, r.tx)
    /\ UNCHANGED <<arg, wire, syncVars, decideVars>>

NextCard ==
    \/ CardWriteBegin
    \/ CardErase
    \/ CardProgram
    \/ CardEepromWrite
    \/ CardWait
    \/ CardReadBegin
    \/ CardRead

SpecCard == InitCard /\ [][NextCard]_vars

\* ---- C26
\* a read that returned true after a write that returned true
WriteReadDone ==
    out # NoOut /\ out.fate = "returned" /\ out.op = "read" /\ out.wrote
        /\ out.ret

\* the image given to the write is as large as the chip
WholeImage == arg.size = card_spi_get_size(arg.type)

\* the buffer holds the image and nothing else
ImageRead == out.buf = <<Seg(0, card_spi_get_size(arg.type), "img", 0)>>

\* C26: for every chip type and every image of the size of the chip, a
\* write that returns true followed by a read returns the image.
C26_WriteThenRead == (WriteReadDone /\ WholeImage) => ImageRead

\* the same as long as the chip has ignored no write command: then the
\* read returns the image, and in any case what the chip holds
C26_WriteThenReadEnabled ==
    WriteReadDone =>
        /\ out.buf = wire.bytes
        /\ (WholeImage /\ ~wire.ignored) => ImageRead

C26_FullRoundTrip == WriteReadDone /\ WholeImage /\ ImageRead


\* ---- C27
\* a step that sends a page-program command to an EEPROM or FLASH chip
ProgramSent ==
    /\ arg.type \in EepromTypes \cup FlashTypes
    /\ out # NoOut /\ out.fate = "running" /\ out.phase = "program"
    /\ out' # out

\* a step in which the wait after a page program returns true
ProgramWaited ==
    /\ arg.type \in EepromTypes \cup FlashTypes
    /\ out # NoOut /\ out.fate = "running" /\ out.phase = "wait"
    /\ out.kind = "program"
    /\ out'.phase = "program" \/ (out'.fate = "returned" /\ out'.ret)

\* a step that enters the program loop
ProgramBegun ==
    /\ out' # NoOut /\ out'.fate = "running" /\ out'.phase = "program"
    /\ out = NoOut \/ out.phase = "-" \/ out.kind # "program"

\* C27: every page-program command sent to an EEPROM or FLASH chip stays
\* inside one page, (a mod p) + n <= p for its address a, its n data bytes
\* and the page size p of the chip, and the commands cover the image
\* without gaps or overlaps: the first is at 0, each is at the end of the
\* one before, and the write returns true only at the end of the image.
C27_InsideOnePage ==
    [][ /\ ProgramSent =>
              LET c == out'.tx[2]
                  a == chip_decode(arg.type, c.hdr).addr
                  p == chip_page(arg.type)
              IN  /\ chip_decode(arg.type, c.hdr).op = CMD_WRITE
                  /\ p \in {16, 32, 128, 256}
                  /\ c.wlen > 0
                  /\ (a % p) + c.wlen <= p
                  /\ a = out.addr
                  /\ out'.chunk = c.wlen
                  /\ a + c.wlen <= out.size
        /\ ProgramWaited =>
              IF out'.fate = "returned" THEN out.addr + out.chunk = out.size
              ELSE out'.addr = out.addr + out.chunk
        /\ ProgramBegun => out'.addr = 0 ]_vars

\* a write of an image one byte short of an EEPROM returned true, its last
\* command one byte short of a page
C27_Witness ==
    /\ out # NoOut /\ out.fate = "returned" /\ out.op = "write" /\ out.ret
    /\ arg.type \in EepromTypes
    /\ arg.size = card_spi_get_size(arg.type) - 1
    /\ out.tx[2].wlen = chip_page(arg.type) - 1


\* ---- C28
\* the transaction is a page-program or a sector-erase command
IsWriteCmd(t) ==
    Len(t.hdr) > 1 /\ chip_decode(arg.type, t.hdr).op \in {CMD_WRITE, CMD_SE}

IsWren(t) == t.hdr = <<CMD_WREN>>

\* C28: in every write operation each page-program and each sector-erase
\* command is immediately preceded by a Write-Enable command of its own:
\* among the transactions made since a command was begun, the one before a
\* program or erase command is a Write-Enable, and there is one command.
C28_WriteEnableBeforeEach ==
    (out # NoOut /\ out.op = "write") =>
        /\ \A n \in DOMAIN out.tx :
               IsWriteCmd(out.tx[n]) => (n > 1 /\ IsWren(out.tx[n - 1]))
        /\ Cardinality({n \in DOMAIN out.tx : IsWriteCmd(out.tx[n])}) <= 1
        /\ Cardinality({n \in DOMAIN out.tx : IsWren(out.tx[n])}) <= 1
        /\ (out.fate = "running" /\ out.phase = "wait") =>
               IsWriteCmd(out.tx[2])

\* a FLASH write returned true: the last page program had its Write-Enable
C28_Witness ==
    /\ out # NoOut /\ out.op = "write" /\ out.fate = "returned" /\ out.ret
    /\ arg.type \in FlashTypes
    /\ IsWren(out.tx[1]) /\ IsWriteCmd(out.tx[2])
    /\ out.tx[2].hdr[1] = CMD_WRITE


\* ---- C29
\* The wait loop is a loop of the adapter thread, which keeps running:
\* weak fairness of its steps.  The chips whose every wait is followed to
\* its end.
LiveTypes == {"EEPROM_512B", "FRAM_32K", "FLASH_256K"}
LiveSize == 512

InitCardLive == InitCard /\ arg.type \in LiveTypes /\ arg.size <= LiveSize

SpecCardLive == InitCardLive /\ [][NextCard]_vars /\ WF_vars(NextCard)

Waiting == out # NoOut /\ out.fate = "running" /\ out.phase = "wait"

\* the status reads of a wait are within the limit of its command
WaitBounded ==
    (out # NoOut /\ out.op = "write" /\ Len(out.tx) = 3) =>
        /\ out.limit = (IF out.kind = "erase" THEN 3000 ELSE 50)
        /\ out.n <= out.limit
        /\ out.tx[3].count = out.n

\* a command is begun only while the chip shows no WIP
CommandWhenIdle ==
    (out # NoOut /\ out.fate = "running" /\ out.phase \in {"erase", "program"})
        => wire.busy = 0

\* a step of a wait: the loop goes on after a status read only, a further
\* command or return true follows a status read that succeeded and showed
\* WIP clear, and the write returns false when a status read fails or when
\* as many reads as the limit have shown WIP
WaitStep ==
    Waiting =>
        /\ Waiting' => (out'.n = out.n + 1 /\ out'.tx[3].ok /\ wire.busy > 0)
        /\ (out'.fate = "running" /\ ~Waiting') \/ (out'.fate = "returned" /\ out'.ret)
               => (out'.n = out.n + 1 /\ out'.tx[3].ok /\ wire.busy = 0)
        /\ out.n >= out.limit => (out'.fate = "returned" /\ ~out'.ret)
        /\ (Len(out'.tx) = 3 /\ ~out'.tx[3].ok)
               => (out'.fate = "returned" /\ ~out'.ret)

\* a write that has returned false does nothing more
FailedWriteEnds ==
    (out # NoOut /\ out.fate = "returned" /\ out.op = "write" /\ ~out.ret)
        => UNCHANGED <<out, wire>>

\* the same without the end of the loop, for every chip type (SpecCard)
C29_WaitSafety ==
    /\ [](WaitBounded /\ CommandWhenIdle)
    /\ [][WaitStep /\ FailedWriteEnds]_vars

\* C29: after every page-program and sector-erase command the adapter
\* reads the status register until WIP is clear before it begins the next
\* command; when WIP has not cleared within 50 reads after a program, 3000
\* after an erase, or a status read fails, the write returns false and
\* sends no further program or erase command; the loop always ends.
C29_PollUntilClear ==
    /\ [](WaitBounded /\ CommandWhenIdle)
    /\ [][WaitStep /\ FailedWriteEnds]_vars
    /\ Waiting ~> ~Waiting

\* a wait after a sector erase went through all its 3000 status reads and
\* the write returned false
C29_Witness ==
    /\ out # NoOut /\ out.op = "write" /\ out.fate = "returned" /\ ~out.ret
    /\ out.kind = "erase" /\ Len(out.tx) = 3
    /\ out.n = WIP_TIMEOUT_ERASE /\ out.tx[3].ok


\* ---- C30
FlashWrite == arg.type \in FlashTypes /\ out # NoOut /\ out.op = "write"

\* the end of the last 64 KiB sector that [0, n) reaches into
SectorsEnd(n) ==
    ((n + FLASH_SECTOR_SIZE - 1) \div FLASH_SECTOR_SIZE) * FLASH_SECTOR_SIZE

\* the steps of a FLASH write as to erasing: the first erase is of sector
\* 0 and each further one of the next sector, each command is a sector
\* erase at the address of the loop, the program loop is entered only
\* after the erase of the last sector that [0, n) reaches into, and once a
\* page program was sent no erase follows
EraseStep ==
    FlashWrite' =>
        /\ (out = NoOut /\ out'.fate = "running")
               => (out'.phase = "erase" /\ out'.addr = 0)
        /\ (FlashWrite /\ out.phase = "erase" /\ out' # out) =>
               /\ out'.kind = "erase"
               /\ out'.tx[2].hdr = flash_hdr(CMD_SE, out.addr)
               /\ out.addr % FLASH_SECTOR_SIZE = 0
               /\ out.addr < out.size
        /\ (FlashWrite /\ out.phase = "wait" /\ out.kind = "erase"
                /\ out'.fate = "running" /\ out'.phase # "wait") =>
               IF out.addr + FLASH_SECTOR_SIZE = SectorsEnd(out.size)
               THEN out'.phase = "program"
               ELSE out'.phase = "erase"
                        /\ out'.addr = out.addr + FLASH_SECTOR_SIZE
        /\ (FlashWrite /\ out.kind = "program")
               => (out'.kind = "program" /\ out'.phase # "erase")
        /\ (FlashWrite /\ out.phase = "program") => out'.phase # "erase"

\* while pages are programmed, and no command was ignored by the chip,
\* every sector that [0, n) reaches into holds erased or programmed bytes
\* only, erased ones from the address of the loop on
ErasedBeforeProgram ==
    (FlashWrite /\ out.fate = "running" /\ out.phase = "program"
         /\ ~wire.ignored) =>
        /\ erased(wire.bytes, out.addr, SectorsEnd(out.size) - out.addr)
        /\ \A n \in DOMAIN wire.bytes :
               wire.bytes[n].at < SectorsEnd(out.size)
                   => wire.bytes[n].kind \in {"erased", "img"}

\* C30: a FLASH write of n bytes erases every 64 KiB sector that [0, n)
\* reaches into before the first page-program command is sent, and sends
\* no sector erase after programming has started.
C30_EraseThenProgram == [][EraseStep]_vars /\ []ErasedBeforeProgram

\* the first page program of an image of a sector and one byte is about
\* to be sent: two sectors are erased, the third is not
C30_Witness ==
    /\ FlashWrite /\ out.fate = "running" /\ out.phase = "program"
    /\ out.addr = 0 /\ out.size = FLASH_SECTOR_SIZE + 1
    /\ erased(wire.bytes, 0, 2 * FLASH_SECTOR_SIZE)
    /\ ~erased(wire.bytes, 2 * FLASH_SECTOR_SIZE, 1)


\* ---- C31
\* C31: every SPI transaction sent while a save is read or written, for
\* every chip type including FRAM, carries at most 256 data bytes.
C31_ChunkedTransfers ==
    out # NoOut =>
        \A n \in DOMAIN out.tx : out.tx[n].wlen <= 256 /\ out.tx[n].rlen <= 256

\* the same for every read, and for every write but that of an FRAM, whose
\* image goes out in one transaction
C31_ChunkedButFramWrite ==
    out # NoOut =>
        \A n \in DOMAIN out.tx :
            /\ out.tx[n].rlen <= 256
            /\ out.tx[n].wlen <= (IF arg.type = "FRAM_32K" THEN out.size ELSE 256)
            /\ (arg.type = "FRAM_32K" /\ out.op = "write" /\ IsWriteCmd(out.tx[n]))
                   => out.tx[n].wlen = out.size



\* ================================================ detection of the save chip
\* card_spi_detect.  ---- card_spi.c:9, 13, 18, 209-282
CMD_WRDI == 4
CMD_JEDEC == 159
SR_WEL == 2
WINDOW == 32

\* the manufacturer bytes detection takes for FLASH (card_spi.c:217-218)
FlashMakers == {32, 194, 98, 28, 191}

\* the switch on the capacity byte with its default arm leading nowhere
flash_by_capacity_strict(capacity) ==
    CASE capacity \in {16, 18} -> "FLASH_256K"
      [] capacity = 19 -> "FLASH_512K"
      [] capacity = 20 -> "FLASH_1M"
      [] capacity = 23 -> "FLASH_8M"
      [] OTHER -> "UNKNOWN"

\* the switch on jedec[2] (card_spi.c:219-226)
flash_by_capacity(capacity) ==
    CASE capacity = 16 -> "FLASH_256K"
      [] capacity = 18 -> "FLASH_256K"
      [] capacity = 19 -> "FLASH_512K"
      [] capacity = 20 -> "FLASH_1M"
      [] capacity = 23 -> "FLASH_8M"
      [] OTHER -> "FLASH_256K"

\* sr & SR_WEL
wel_set(sr) == (sr \div SR_WEL) % 2 = 1

\* the loop over ref[1..31] (card_spi.c:246-249)
all_same(ref) == \A n \in 2 .. WINDOW : ref[n] = ref[1]

\* What the chip answers: its JEDEC id, its status after a Write-Enable,
\* and the 32-byte windows read at 0x0000, 0x2000 and 0x8000 with two
\* address bytes and at 0x10000 with bit 16 in the command.
ChipAnswers(jedec, sr, ref, p8k, p32k, p128k) ==
    [jedec |-> jedec, sr |-> sr, ref |-> ref, p8k |-> p8k, p32k |-> p32k,
     p128k |-> p128k]

\* the transactions of a detection, in the order of the code
Probes ==
    <<"jedec", "wren", "status", "wrdi", "ref", "r512", "p8k", "p32k", "p128k">>

Detected(type, tx) == [type |-> type, tx |-> tx]

\* card_spi_detect on a chip that answers c, the transactions succeeding
\* as e says
card_spi_detect(initialized, c, e) ==
    LET t1 == <<Tx(<<CMD_JEDEC>>, 0, 3, e.jedec, 1)>>
        t2 == t1 \o <<Tx(<<CMD_WREN>>, 0, 0, e.wren, 1)>>
        t3 == t2 \o <<Tx(<<CMD_RDSR>>, 0, 1, e.status, 1)>>
        t4 == t3 \o <<Tx(<<CMD_WRDI>>, 0, 0, e.wrdi, 1)>>
        t5 == t4 \o <<Tx(eeprom_2addr_hdr(CMD_READ, 0), 0, WINDOW, e.ref, 1)>>
        t6 == t5 \o <<Tx(eeprom_2addr_hdr(CMD_READ, 8192), 0, WINDOW, e.p8k, 1)>>
        t7 == t6 \o <<Tx(eeprom_2addr_hdr(CMD_READ, 32768), 0, WINDOW, e.p32k, 1)>>
        t8 == t7 \o <<Tx(eeprom_128k_hdr(CMD_READ, 65536), 0, WINDOW, e.p128k, 1)>>
    IN  IF ~initialized THEN Detected("UNKNOWN", <<>>)
        ELSE IF e.jedec /\ c.jedec[1] \in FlashMakers
        THEN Detected(flash_by_capacity(c.jedec[3]), t1)
        ELSE IF ~e.wren THEN Detected("UNKNOWN", t2)
        ELSE IF ~e.status THEN Detected("UNKNOWN", t3)
        ELSE IF ~wel_set(c.sr) THEN Detected("UNKNOWN", t4)
        ELSE IF ~e.ref THEN Detected("UNKNOWN", t5)
        ELSE IF all_same(c.ref)
        THEN Detected("EEPROM_64K",
                      t5 \o <<Tx(eeprom_512b_hdr(CMD_READ, 0), 0, 4, e.r512, 1)>>)
        ELSE IF e.p8k /\ c.p8k = c.ref THEN Detected("EEPROM_8K", t6)
        ELSE IF e.p32k /\ c.p32k = c.ref THEN Detected("FRAM_32K", t7)
        ELSE IF e.p128k /\ c.p128k # c.ref THEN Detected("EEPROM_128K", t8)
        ELSE Detected("EEPROM_64K", t8)

\* the write latch of the chip after the transactions tx
latch_after(c, was, tx) ==
    LET set == Len(tx) >= 2 /\ tx[2].ok /\ wel_set(c.sr)
        reset == Len(tx) >= 4 /\ tx[4].ok
    IN  IF reset THEN FALSE ELSE (was \/ set)

\* ---- the chips and what may fail
Uniform(b) == [n \in 1 .. WINDOW |-> b]
LastDiffers == [n \in 1 .. WINDOW |-> IF n = WINDOW THEN 0 ELSE 255]
Ramp == [n \in 1 .. WINDOW |-> n]
Windows == {Uniform(255), LastDiffers, Ramp}

Capacities == {16, 18, 19, 20, 23, 17, 0}

DetectChips ==
    {ChipAnswers(<<m, 32, k>>, 2, Ramp, Uniform(255), LastDiffers, Ramp) :
         m \in FlashMakers, k \in Capacities}
        \cup {ChipAnswers(j, s, w[1], w[2], w[3], w[4]) :
                  j \in {<<0, 0, 0>>, <<255, 255, 255>>, <<33, 32, 19>>},
                  s \in {0, 2, 253, 255},
                  w \in [1 .. 4 -> Windows]}

ProbeNames == {Probes[n] : n \in DOMAIN Probes}

\* at most one transaction of a detection fails
DetectPlans ==
    {[p \in ProbeNames |-> p # bad] : bad \in ProbeNames \cup {"-"}}

InitDetect ==
    /\ \E c \in DetectChips :
       \E e \in DetectPlans :
       \E init \in BOOLEAN :
          /\ init \/ (c.jedec = <<0, 0, 0>> /\ c.sr = 2)
          /\ arg = [op |-> "detect", initialized |-> init, chip |-> c, e |-> e]
          /\ wire = [ready |-> TRUE, bytes |-> c, latch |-> FALSE]
    /\ out = NoOut
    /\ details = NoDecision /\ action = "-"
    /\ client = "3ds"
    /\ titles = <<>> /\ state = <<>>
    /\ local = [id \in AllIds |-> <<>>]
    /\ store = [id \in AllIds |-> EMPTY_STR]
    /\ server = [id \in AllIds |-> {}]
    /\ pc = "idle" /\ i = 1
    /\ hash_cache = <<>> /\ json = <<>> /\ plan = <<>> /\ arr = 0
    /\ ids = NoIds /\ summary = NewSummary /\ ret = "-" /\ log = <<>>
    /\ last = [op |-> "-"]

\* a detection
Detect ==
    /\ arg.op = "detect" /\ out = NoOut
    /\ \E d \in {card_spi_detect(arg.initialized, wire.bytes, arg.e)} :
          /\ out' = [fate |-> "detected", type |-> d.type, tx |-> d.tx,
                     runs |-> 1, before |-> "-", e |-> arg.e]
          /\ wire' = [wire EXCEPT !.latch = latch_after(wire.bytes, wire.latch, d.tx)]
    /\ UNCHANGED <<arg, syncVars, decideVars>>

\* a second detection of the same chip
DetectAgain ==
    /\ arg.op = "detect" /\ out # NoOut /\ out.runs = 1
    /\ \E e \in DetectPlans :
       \E d \in {card_spi_detect(arg.initialized, wire.bytes, e)} :
          /\ out' = [fate |-> "detected", type |-> d.type, tx |-> d.tx,
                     runs |-> 2, before |-> out.type, e |-> e]
          /\ wire' = [wire EXCEPT !.latch = latch_after(wire.bytes, wire.latch, d.tx)]
    /\ UNCHANGED <<arg, syncVars, decideVars>>

NextDetect == Detect \/ DetectAgain

SpecDetect == InitDetect /\ [][NextDetect]_vars

\* ---- C32
CardReturned32 == out # NoOut /\ out.fate = "returned" /\ arg.op \in {"write", "read"}

\* C32: when an SPI transaction fails during a write or a read of the save
\* (a Write-Enable, a program, an erase, a status read, a data read), the
\* operation returns false.
C32_AnyFailureFails ==
    (CardReturned32 /\ \E n \in DOMAIN out.tx : ~out.tx[n].ok) => ~out.ret

\* the same for every transaction but the Write-Enable
C32_CommandFailuresFail ==
    (CardReturned32 /\ \E n \in DOMAIN out.tx : ~out.tx[n].ok /\ ~IsWren(out.tx[n]))
        => ~out.ret

\* in a detection the failure of the Write-Enable, of the status read or
\* of the read of the reference window gives no chip (SpecDetect)
C32_DetectFailuresReported ==
    (arg.op = "detect" /\ out # NoOut
         /\ \E n \in DOMAIN out.tx : n \in {2, 3, 5} /\ ~out.tx[n].ok)
        => out.type = "UNKNOWN"

\* a detection that reports a chip type although one of its transactions
\* failed (SpecDetect)
C32_DetectMasksFailure ==
    /\ arg.op = "detect" /\ out # NoOut
    /\ \E n \in DOMAIN out.tx : ~out.tx[n].ok
    /\ out.type # "UNKNOWN"


\* ---- C33
DetectDone == arg.op = "detect" /\ out # NoOut /\ arg.initialized

\* the JEDEC id was read and names a FLASH manufacturer
JedecFlash ==
    out.tx[1].ok /\ arg.chip.jedec[1] \in {32, 194, 98, 28, 191}

\* C33: detection first classifies by the JEDEC id: a manufacturer byte of
\* 0x20, 0xC2, 0x62, 0x1C or 0xBF gives the FLASH variant of the capacity
\* byte (0x10 and 0x12 give 256 KiB, 0x13 512 KiB, 0x14 1 MiB, 0x17 8 MiB,
\* anything else 256 KiB) and nothing further is sent; otherwise, when the
\* WEL bit of the status read after a Write-Enable is not set, the result
\* is that there is no save chip.
C33_JedecThenWel ==
    DetectDone =>
        /\ out.tx[1].hdr = <<159>>
        /\ JedecFlash =>
               /\ Len(out.tx) = 1
               /\ out.type =
                      (LET k == arg.chip.jedec[3]
                       IN  IF k \in {16, 18} THEN "FLASH_256K"
                           ELSE IF k = 19 THEN "FLASH_512K"
                           ELSE IF k = 20 THEN "FLASH_1M"
                           ELSE IF k = 23 THEN "FLASH_8M"
                           ELSE "FLASH_256K")
        /\ ~JedecFlash =>
               /\ Len(out.tx) >= 2 /\ out.tx[2].hdr = <<6>>
               /\ Len(out.tx) >= 3 => out.tx[3].hdr = <<5>>
               /\ (Len(out.tx) >= 3 /\ out.tx[3].ok
                       /\ arg.chip.sr \notin {2, 255})
                      => out.type = "UNKNOWN"
               /\ out.type \notin FlashTypes

\* a chip of a FLASH manufacturer with a capacity byte that is none of the
\* five is taken for 256 KiB
C33_Witness ==
    /\ DetectDone /\ JedecFlash
    /\ arg.chip.jedec[3] = 17 /\ out.type = "FLASH_256K"

\* a chip of no FLASH manufacturer whose status shows no WEL is no chip
C33_WitnessNoWel ==
    /\ DetectDone /\ ~JedecFlash
    /\ Len(out.tx) = 4 /\ out.tx[3].ok /\ arg.chip.sr = 253
    /\ out.type = "UNKNOWN"


\* ---- C34
\* a chip of no FLASH manufacturer that latches WEL, for which detection
\* reported a chip
WrapDetected ==
    /\ DetectDone /\ out.type # "UNKNOWN"
    /\ arg.chip.jedec[1] \notin {32, 194, 98, 28, 191}
    /\ arg.chip.sr \in {2, 255}

IsUniform(w) == \A n, m \in DOMAIN w : w[n] = w[m]

\* the type the windows of the chip stand for
WrapType(c) ==
    IF IsUniform(c.ref) THEN "EEPROM_64K"
    ELSE IF c.p8k = c.ref THEN "EEPROM_8K"
    ELSE IF c.p32k = c.ref THEN "FRAM_32K"
    ELSE IF c.p128k # c.ref THEN "EEPROM_128K"
    ELSE "EEPROM_64K"

\* no transaction of a detection writes to the chip, and the chip is as it
\* was
ChipUntouched ==
    /\ wire.bytes = arg.chip
    /\ \A n \in DOMAIN out.tx :
           /\ out.tx[n].wlen = 0
           /\ out.tx[n].hdr[1] \in {159, 6, 5, 4, 3, 11}

\* C34: for a chip that is no FLASH and latches WEL, detection classifies
\* by the wrap-around of the 32-byte window at address 0 (uniform: 64 KiB
\* EEPROM; equal to the window at 0x2000: 8 KiB EEPROM; equal to the one
\* at 0x8000: 32 KiB FRAM; the window at 0x10000 differs: 128 KiB EEPROM;
\* else 64 KiB EEPROM), leaves the contents of the chip unchanged, and two
\* detections in a row on an unchanged chip give the same type.
C34_WrapClassification ==
    WrapDetected =>
        /\ out.type = WrapType(arg.chip)
        /\ ChipUntouched
        /\ (out.runs = 2 /\ out.before # "UNKNOWN") => out.type = out.before

NoProbeFailed ==
    /\ \A p \in ProbeNames : out.e[p]
    /\ out.runs = 2 => \A p \in ProbeNames : arg.e[p]

\* the same as long as no transaction fails; and the chip is never
\* written to
C34_WrapWithoutFailures ==
    DetectDone =>
        /\ ChipUntouched
        /\ (WrapDetected /\ NoProbeFailed) =>
               /\ out.type = WrapType(arg.chip)
               /\ out.runs = 2 => out.type = out.before

\* with all transactions succeeding, a second detection finds the FRAM
\* the first one found
C34_FramTwice ==
    /\ WrapDetected /\ NoProbeFailed /\ out.runs = 2
    /\ out.type = "FRAM_32K" /\ out.before = "FRAM_32K"

\* ------------------------------------------------ enumeration of the titles
\* A product code is the four bytes at offset 0x0C of a ROM header; a title
\* id is a u64 on the 3DS (two 32-bit halves of two 16-bit words each, as for
\* write_u64_be) and eight bytes on the DS; a hex string is the sequence of
\* its character codes.
ScanMax == 3        \* max_titles / MAX_TITLES: capacity of the title list
ScanDir == 2        \* longest directory listing
ScanDirs == 2       \* most flashcard paths that exist at once

CodeA == <<65, 66, 67, 69>>
CodeB == <<65, 66, 67, 74>>

\* the validation loop of nds_read_gamecode and read_rom_gamecode
printable(code) == \A n \in 1..4 : ~(code[n] < 32 \/ code[n] > 126)

\* 3DS nds_read_gamecode: hdr is what fread gave (nothing if fopen failed)
nds_read_gamecode(hdr) ==
    IF Len(hdr) # 4 THEN [ok |-> FALSE, code |-> <<>>]
    ELSE IF ~printable(hdr) THEN [ok |-> FALSE, code |-> <<>>]
    ELSE [ok |-> TRUE, code |-> hdr]

\* DS read_rom_gamecode
read_rom_gamecode(hdr) ==
    IF Len(hdr) # 4 THEN [ok |-> FALSE, code |-> <<>>]
    ELSE IF ~printable(hdr) THEN [ok |-> FALSE, code |-> <<>>]
    ELSE [ok |-> TRUE, code |-> hdr]

\* nds_gamecode_to_title_id with the code's bytes in little-endian order
nds_gamecode_to_title_id_le(code) ==
    <<<<4, 32768>>, <<code[4] * 256 + code[3], code[2] * 256 + code[1]>>>>

\* 3DS nds_gamecode_to_title_id: NDS_TITLE_ID_PREFIX << 32, then the four
\* bytes shifted by 24, 16, 8 and 0
nds_gamecode_to_title_id(code) ==
    <<<<4, 32768>>, <<code[1] * 256 + code[2], code[3] * 256 + code[4]>>>>

\* DS: title_id[0..3] = 00 04 80 00, title_id[4 + i] = product_code[i]
ds_title_id(product_code) ==
    <<0, 4, 128, 0>> \o [n \in 1..4 |-> product_code[n]]

\* one digit of %X
hex_digit(n) == IF n < 10 THEN 48 + n ELSE 55 + n

\* %0<width>X of val: the digits of val, zero-padded up to width
RECURSIVE fmt_X(_, _)
fmt_X(val, width) ==
    IF val < 16 /\ width <= 1 THEN <<hex_digit(val)>>
    ELSE fmt_X(val \div 16, width - 1) \o <<hex_digit(val % 16)>>

\* snprintf(out, size, ...): at most size - 1 characters are stored
snprintf(size, text) ==
    IF Len(text) > size - 1 THEN SubSeq(text, 1, size - 1) ELSE text

\* 3DS title_id_to_hex: snprintf(out, 17, "%016llX", title_id)
title_id_to_hex(title_id) ==
    snprintf(17, fmt_X(title_id[1][1], 4) \o fmt_X(title_id[1][2], 4)
                     \o fmt_X(title_id[2][1], 4) \o fmt_X(title_id[2][2], 4))

\* DS title_id_to_hex: snprintf(hex, 17, "%02X" eight times, title_id[0..7])
ds_title_id_to_hex(title_id) ==
    snprintf(17, fmt_X(title_id[1], 2) \o fmt_X(title_id[2], 2)
                     \o fmt_X(title_id[3], 2) \o fmt_X(title_id[4], 2)
                     \o fmt_X(title_id[5], 2) \o fmt_X(title_id[6], 2)
                     \o fmt_X(title_id[7], 2) \o fmt_X(title_id[8], 2))

\* ---- the 3DS scan (titles_scan)
\* scan_media: n titles of the media have a save; they are 3DS titles
scan_media(media, n, ts, max_titles) ==
    LET room == max_titles - Len(ts)
        added == IF n < room THEN n ELSE room
    IN ts \o [j \in 1..added |->
                [title_id |-> <<<<4, 0>>, <<media, j>>>>, media_type |-> media,
                 is_nds |-> FALSE, product_code |-> <<67, 84, 82, 45, 80>>,
                 name |-> 0, src |-> <<0, 0>>]]

\* scan_nds_cart: the cartridge in the slot, if it is a DS cartridge
scan_nds_cart(cart, ts, max_titles) ==
    IF Len(ts) >= max_titles THEN ts
    ELSE IF ~cart.inserted \/ ~cart.twl \/ ~cart.ok THEN ts
    ELSE IF ~printable(cart.code) THEN ts
    ELSE Append(ts, [title_id |-> nds_gamecode_to_title_id(cart.code),
                     media_type |-> 2, is_nds |-> TRUE,
                     product_code |-> cart.code, name |-> 0,
                     src |-> <<0, 1>>])

\* nds_scan: the readdir loop from entry n on
RECURSIVE nds_scan(_, _, _, _)
nds_scan(dir, n, ts, max_titles) ==
    IF n > Len(dir) \/ Len(ts) >= max_titles THEN ts
    ELSE IF dir[n].kind # "rom" THEN nds_scan(dir, n + 1, ts, max_titles)
    ELSE LET g == nds_read_gamecode(dir[n].hdr)
             dup == \E j \in 1..Len(ts) :
                       ts[j].is_nds /\ ts[j].product_code = g.code
         IN IF ~g.ok \/ dup THEN nds_scan(dir, n + 1, ts, max_titles)
            ELSE nds_scan(dir, n + 1,
                     Append(ts, [title_id |-> nds_gamecode_to_title_id(g.code),
                                 media_type |-> 1, is_nds |-> TRUE,
                                 product_code |-> g.code, name |-> dir[n].name,
                                 src |-> <<1, n>>]),
                     max_titles)

titles_scan(a, max_titles) ==
    LET sd == scan_media(1, a.sd, <<>>, max_titles)
        gc == scan_media(2, a.gc, sd, max_titles)
        card == scan_nds_cart(a.cart, gc, max_titles)
    IN IF a.nds_dir.set /\ a.nds_dir.opens
       THEN nds_scan(a.nds_dir.entries, 1, card, max_titles)
       ELSE card

\* ---- the DS scan (saves_scan)
\* scan_flashcard_roms: path p of the default paths, from its entry n on
RECURSIVE scan_flashcard_roms(_, _, _, _)
scan_flashcard_roms(paths, p, n, ts) ==
    IF p > Len(paths) \/ Len(ts) >= ScanMax THEN ts
    ELSE IF ~paths[p].opens \/ n > Len(paths[p].entries)
         THEN scan_flashcard_roms(paths, p + 1, 1, ts)
    ELSE LET e == paths[p].entries[n]
             g == read_rom_gamecode(e.hdr)
             is_duplicate == \E j \in 1..Len(ts) :
                                SubSeq(ts[j].title_id, 5, 8) = g.code
         IN IF e.kind # "rom" \/ ~g.ok \/ is_duplicate
            THEN scan_flashcard_roms(paths, p, n + 1, ts)
            ELSE scan_flashcard_roms(paths, p, n + 1,
                     Append(ts, [title_id |-> ds_title_id(g.code),
                                 game_name |-> e.name, is_cartridge |-> 0,
                                 rom |-> TRUE, src |-> <<p, n>>]))

\* the inner loop of scan_bootstrap_roms over the .sav files of a directory
\* named like a title id: the title id of the slot is left as it was
RECURSIVE scan_tid_dir(_, _, _)
scan_tid_dir(e, k, ts) ==
    IF k > e.savs \/ Len(ts) >= ScanMax THEN ts
    ELSE scan_tid_dir(e, k + 1,
             Append(ts, [title_id |-> <<0, 0, 0, 0, 0, 0, 0, 0>>,
                         game_name |-> e.name, is_cartridge |-> 0,
                         rom |-> FALSE, src |-> <<0, 0>>]))

\* scan_bootstrap_roms: the readdir loop over the ROM directory
RECURSIVE scan_bootstrap_roms(_, _, _)
scan_bootstrap_roms(dir, n, ts) ==
    IF ~dir.opens \/ n > Len(dir.entries) \/ Len(ts) >= ScanMax THEN ts
    ELSE LET e == dir.entries[n]
             g == read_rom_gamecode(e.hdr)
         IN IF e.kind = "rom"
            THEN IF ~g.ok THEN scan_bootstrap_roms(dir, n + 1, ts)
                 ELSE scan_bootstrap_roms(dir, n + 1,
                          Append(ts, [title_id |-> ds_title_id(g.code),
                                      game_name |-> e.name, is_cartridge |-> 0,
                                      rom |-> TRUE, src |-> <<1, n>>]))
            ELSE IF e.kind = "tid"
            THEN scan_bootstrap_roms(dir, n + 1, scan_tid_dir(e, 1, ts))
            ELSE scan_bootstrap_roms(dir, n + 1, ts)

\* qsort with title_compare: every order of the list that ascends by name
title_sorts(ts) ==
    {[n \in 1..Len(ts) |-> ts[f[n]]] : f \in
        {f \in [1..Len(ts) -> 1..Len(ts)] :
            /\ \A x, y \in 1..Len(ts) : x # y => f[x] # f[y]
            /\ \A x, y \in 1..Len(ts) :
                  x < y => ts[f[x]].game_name <= ts[f[y]].game_name}}

\* saves_scan: the lists it can leave in state->titles
saves_scan(a) ==
    title_sorts(IF a.mode \in {1, 2}
                THEN scan_bootstrap_roms(a.paths[1], 1, <<>>)
                ELSE scan_flashcard_roms(a.paths, 1, 1, <<>>))

\* ---- the inputs
RomFile(name, hdr) == [kind |-> "rom", name |-> name, hdr |-> hdr, savs |-> 0]
ScanEntries ==
    {RomFile(2, CodeA), RomFile(3, CodeA), RomFile(4, CodeB),
     RomFile(5, <<65, 7, 67, 69>>), RomFile(6, <<65, 200, 67, 69>>),
     RomFile(7, <<65, 66>>),
     [kind |-> "file", name |-> 8, hdr |-> <<>>, savs |-> 0],
     [kind |-> "tid", name |-> 1, hdr |-> <<>>, savs |-> 1]}

\* directory listings: no two entries of a directory have the same name
Listings ==
    UNION {{s \in [1..n -> ScanEntries] :
               \A x, y \in 1..n : x # y => s[x].name # s[y].name} :
           n \in 0..ScanDir}
Directories ==
    {[opens |-> TRUE, entries |-> s] : s \in Listings}
        \cup {[opens |-> FALSE, entries |-> <<>>]}
NoDirectory == [opens |-> FALSE, entries |-> <<>>]

Carts ==
    {[inserted |-> FALSE, twl |-> FALSE, ok |-> FALSE, code |-> <<>>],
     [inserted |-> TRUE, twl |-> FALSE, ok |-> FALSE, code |-> <<>>],
     [inserted |-> TRUE, twl |-> TRUE, ok |-> FALSE, code |-> <<>>],
     [inserted |-> TRUE, twl |-> TRUE, ok |-> TRUE, code |-> CodeA],
     [inserted |-> TRUE, twl |-> TRUE, ok |-> TRUE, code |-> CodeB],
     [inserted |-> TRUE, twl |-> TRUE, ok |-> TRUE, code |-> <<0, 66, 67, 69>>]}

ScanArgs3DS ==
    {[op |-> "scan", client |-> "3ds", sd |-> sd, gc |-> gc, cart |-> c,
      nds_dir |-> [set |-> set, opens |-> d.opens, entries |-> d.entries]] :
        sd \in 0..ScanMax, gc \in 0..1, c \in Carts,
        set \in BOOLEAN, d \in Directories}
FlashPaths ==
    {ps \in [1..4 -> Directories] :
        Cardinality({p \in 1..4 : ps[p].opens}) <= ScanDirs}
ScanArgsDS ==
    {[op |-> "scan", client |-> "ds", mode |-> 0, paths |-> ps] :
        ps \in FlashPaths}
        \cup {[op |-> "scan", client |-> "ds", mode |-> m, paths |-> <<d>>] :
                 m \in {1, 2}, d \in Directories}

CodeBytes == {32, 74, 111, 126}
ProductCodes == [1..4 -> CodeBytes]
IdArgs ==
    {[op |-> "title_id", client |-> "3ds", a |-> a, b |-> b] :
        a \in ProductCodes, b \in ProductCodes}

InitScan ==
    /\ arg \in ScanArgs3DS \cup ScanArgsDS \cup IdArgs
    /\ (arg.op = "scan" /\ arg.client = "3ds" /\ arg.gc = 1)
          => (arg.cart.inserted /\ ~arg.cart.twl)
    /\ client = arg.client
    /\ wire = NoWire /\ out = NoOut
    /\ details = NoDecision /\ action = "-"
    /\ titles = <<>> /\ state = <<>>
    /\ local = [id \in AllIds |-> <<>>]
    /\ store = [id \in AllIds |-> EMPTY_STR]
    /\ server = [id \in AllIds |-> {}]
    /\ pc = "idle" /\ i = 1
    /\ hash_cache = <<>> /\ json = <<>> /\ plan = <<>> /\ arr = 0
    /\ ids = NoIds /\ summary = NewSummary /\ ret = "-" /\ log = <<>>
    /\ last = [op |-> "-"]

\* 3DS: titles_scan fills the title list
TitlesScan ==
    /\ arg.op = "scan" /\ arg.client = "3ds" /\ out = NoOut
    /\ out' = [fate |-> "scanned", titles |-> titles_scan(arg, ScanMax)]
    /\ UNCHANGED <<arg, wire, syncVars, decideVars>>

\* DS: saves_scan fills and sorts state->titles
SavesScan ==
    /\ arg.op = "scan" /\ arg.client = "ds" /\ out = NoOut
    /\ \E ts \in saves_scan(arg) :
          out' = [fate |-> "scanned", titles |-> ts]
    /\ UNCHANGED <<arg, wire, syncVars, decideVars>>

\* both clients derive and format the title ids of two product codes
DeriveTitleIds ==
    /\ arg.op = "title_id" /\ out = NoOut
    /\ out' = [fate |-> "title_id",
               id3ds |-> <<nds_gamecode_to_title_id(arg.a),
                           nds_gamecode_to_title_id(arg.b)>>,
               idds |-> <<ds_title_id(arg.a), ds_title_id(arg.b)>>,
               hex3ds |-> <<title_id_to_hex(nds_gamecode_to_title_id(arg.a)),
                            title_id_to_hex(nds_gamecode_to_title_id(arg.b))>>,
               hexds |-> <<ds_title_id_to_hex(ds_title_id(arg.a)),
                           ds_title_id_to_hex(ds_title_id(arg.b))>>]
    /\ UNCHANGED <<arg, wire, syncVars, decideVars>>

NextScan == TitlesScan \/ SavesScan \/ DeriveTitleIds

SpecScan == InitScan /\ [][NextScan]_vars

\* ---- C35
Scanned == out # NoOut /\ out.fate = "scanned"
\* the titles of the scan that were derived from a ROM product code
RomTitles ==
    {j \in 1..Len(out.titles) :
        IF arg.client = "3ds" THEN out.titles[j].is_nds ELSE out.titles[j].rom}
CodeOf(j) ==
    IF arg.client = "3ds" THEN out.titles[j].product_code
    ELSE SubSeq(out.titles[j].title_id, 5, 8)
\* the readable product code found at place s of the enumeration (<<>> if
\* that place gives none): <<0, 1>> is the cartridge slot, <<p, n>> entry n
\* of directory p
FoundAt(s) ==
    IF arg.client = "3ds"
    THEN IF s = <<0, 1>>
         THEN IF arg.cart.inserted /\ arg.cart.twl /\ arg.cart.ok
                 /\ printable(arg.cart.code)
              THEN arg.cart.code ELSE <<>>
         ELSE IF s[1] = 1 /\ arg.nds_dir.set /\ s[2] \in 1..Len(arg.nds_dir.entries)
                 /\ arg.nds_dir.entries[s[2]].kind = "rom"
                 /\ Len(arg.nds_dir.entries[s[2]].hdr) = 4
                 /\ printable(arg.nds_dir.entries[s[2]].hdr)
              THEN arg.nds_dir.entries[s[2]].hdr ELSE <<>>
    ELSE IF s[1] \in 1..Len(arg.paths) /\ s[2] \in 1..Len(arg.paths[s[1]].entries)
            /\ arg.paths[s[1]].entries[s[2]].kind = "rom"
            /\ Len(arg.paths[s[1]].entries[s[2]].hdr) = 4
            /\ printable(arg.paths[s[1]].entries[s[2]].hdr)
         THEN arg.paths[s[1]].entries[s[2]].hdr ELSE <<>>
Places == (0..4) \X (1..(ScanDir + 1))
Earlier(s, t) == s[1] < t[1] \/ (s[1] = t[1] /\ s[2] < t[2])
FirstFoundKept ==
    \A j \in RomTitles : \A s \in Places :
        Earlier(s, out.titles[j].src) => FoundAt(s) # CodeOf(j)

\* C35: after enumeration no two titles derived from a ROM product code
\* share a product code or a title id, and the title kept for a code is the
\* first place of the enumeration that gave it; in every scan mode of both
\* clients.
C35_UniqueProductCodes ==
    Scanned =>
        /\ \A j, k \in RomTitles :
              j # k => /\ CodeOf(j) # CodeOf(k)
                       /\ out.titles[j].title_id # out.titles[k].title_id
        /\ FirstFoundKept

\* the same for the 3DS scan and the flashcard scan of the DS
C35_UniqueOutsideBootstrap ==
    (Scanned /\ (arg.client = "3ds" \/ arg.mode = 0)) =>
        /\ \A j, k \in RomTitles :
              j # k => /\ CodeOf(j) # CodeOf(k)
                       /\ out.titles[j].title_id # out.titles[k].title_id
        /\ FirstFoundKept

\* a later ROM with the code of an earlier one was skipped
C35_DuplicateSkipped ==
    /\ Scanned /\ (arg.client = "3ds" \/ arg.mode = 0)
    /\ \E j \in RomTitles : \E s \in Places :
          Earlier(out.titles[j].src, s) /\ FoundAt(s) = CodeOf(j)
    /\ Len(out.titles) < ScanMax

\* the bootstrap scan lists two ROMs with one product code
C35_BootstrapTwice ==
    /\ Scanned /\ arg.client = "ds" /\ arg.mode \in {1, 2}
    /\ \E j, k \in RomTitles : j # k /\ CodeOf(j) = CodeOf(k)

\* ---- C36
Derived == out # NoOut /\ out.fate = "title_id"
\* the code's bytes as a big-endian 32-bit value
BigEndian32(code) ==
    ((code[1] * 256 + code[2]) * 256 + code[3]) * 256 + code[4]
HexChars == (48..57) \cup (65..70)

\* C36: for every 4-byte printable product code both clients derive the same
\* title id, 0x00048000 in the high 32 bits and the code's bytes as a
\* big-endian 32-bit value in the low 32 bits, and format it as the same
\* string of 16 uppercase hex characters; distinct product codes give
\* distinct title ids (and strings).
C36_SameTitleId ==
    Derived =>
        /\ \A n \in 1..2 :
              /\ write_u64_be(out.id3ds[n]) = out.idds[n]
              /\ out.id3ds[n][1] = <<4, 32768>>
              /\ out.id3ds[n][2][1] * 65536 + out.id3ds[n][2][2]
                    = BigEndian32(IF n = 1 THEN arg.a ELSE arg.b)
              /\ out.hex3ds[n] = out.hexds[n]
              /\ Len(out.hex3ds[n]) = 16
              /\ \A k \in 1..16 : out.hex3ds[n][k] \in HexChars
        /\ arg.a # arg.b =>
              /\ out.id3ds[1] # out.id3ds[2]
              /\ out.idds[1] # out.idds[2]
              /\ out.hex3ds[1] # out.hex3ds[2]
              /\ out.hexds[1] # out.hexds[2]

\* two printable codes that differ, one with hex letters in its bytes
C36_Witness ==
    /\ Derived /\ printable(arg.a) /\ printable(arg.b)
    /\ arg.a = <<126, 74, 111, 32>> /\ arg.b = <<32, 111, 74, 126>>
    /\ out.hexds[1] = <<48, 48, 48, 52, 56, 48, 48, 48,
                        55, 69, 52, 65, 54, 70, 50, 48>>

\* ---- C37
Downloaded == last.op = "download" /\ last.res \in {"SYNC_OK", "OK"}
ServerHashOf(id) == bundle_compute_save_hash(CHOOSE f \in server[id] : TRUE)

\* 3DS: what sync_get_save_details gathers for the title now, the save read
\* back through the adapter of its media and GET /meta answering
DetailsNow(id) ==
    LET t == titles[find_title(titles, id)]
        rd == read_save(t, local, "ok")
    IN  sync_get_save_details(rd.fc, rd.files, {ServerHashOf(id)}, store[id])

\* DS: what sync_decide gives for the title now
DecisionNow(id) ==
    LET k == CHOOSE n \in 1..Len(state) : state[n].title_id = id
    IN  ds_sync_decide(state[k], local, store,
                       network_get_save_info_ext(server, id, "ok", 0), "ok")

Converged(id) ==
    IF client = "3ds"
    THEN /\ DetailsNow(id).local_hash = ServerHashOf(id)
         /\ store[id] = ServerHashOf(id)
         /\ sync_decide(DetailsNow(id)) = "UP_TO_DATE"
    ELSE /\ DecisionNow(id).rc = 0
         /\ DecisionNow(id).d.local_hash_hex = ServerHashOf(id)
         /\ store[id] = ServerHashOf(id)
         /\ DecisionNow(id).action = "UP_TO_DATE"

\* C37: after a download of a title has returned success, and with the
\* server save unchanged, the hash of the local save as read back equals the
\* persisted last-synced hash and the server hash, and the next decision for
\* the title is UP_TO_DATE; for every media kind.
C37_DownloadConverges == Downloaded => Converged(last.id)

\* the same for a download that wrote the save to a medium other than a
\* raw-SPI cartridge and whose hash reached the state file
C37_ConvergesWhenStored ==
    (Downloaded /\ last.moved /\ ~IsCartId(last.id)
        /\ store[last.id] = ServerHashOf(last.id)) => Converged(last.id)

\* a download onto a cartridge whose chip is larger than the save, every
\* step working: the image read back is the save and the padding
C37_CartPadded ==
    /\ Downloaded /\ IsCartId(last.id) /\ last.step = "none"
    /\ store[last.id] = ServerHashOf(last.id)
    /\ DetailsNow(last.id).local_hash # ServerHashOf(last.id)
    /\ sync_decide(DetailsNow(last.id)) = "UPLOAD"

\* a download that converged
C37_Converged == Downloaded /\ Converged(last.id)

\* ------------------------------------- DS: sync_execute and sync_scan_all
SyncActions == {"UP_TO_DATE", "UPLOAD", "DOWNLOAD", "CONFLICT"}

\* sync_execute(state, j, act) called for one title
ds_execute(j, act) ==
    /\ client = "ds" /\ pc = "idle"
    /\ \E e \in (IF act = "UPLOAD" THEN DsUpEnv ELSE DsDownEnv) :
          \E o \in {sync_execute(state[j], act, store, server, local, e)} :
              /\ state' = [state EXCEPT ![j] = o.title]
              /\ store' = o.store /\ server' = o.server /\ local' = o.local
              /\ log' = Append(log, [op |-> "execute", id |-> state[j].title_id])
              /\ last' = [op |-> "execute", act |-> act, id |-> state[j].title_id,
                          res |-> o.res, step |-> o.step,
                          before |-> store[state[j].title_id],
                          after |-> o.store[state[j].title_id],
                          data |-> o.data, moved |-> o.moved, read |-> o.read,
                          bundle |-> o.bundle, post |-> o.post]
              /\ ret' = IF o.res = "OK" THEN "0" ELSE "-1"
    /\ pc' = "done"
    /\ UNCHANGED <<client, titles, i, hash_cache, json, plan, arr, ids, summary,
                   decideVars, codecVars>>

\* the counting of sync_scan_all with a failed decision counted as a
\* conflict as well
scan_count_failed_twice(sm, rc, act) ==
    IF rc # 0 THEN [sm EXCEPT !.failed = @ + 1, !.conflicts = @ + 1]
    ELSE CASE act = "UP_TO_DATE" -> [sm EXCEPT !.up_to_date = @ + 1]
           [] act = "UPLOAD" -> [sm EXCEPT !.uploaded = @ + 1]
           [] act = "DOWNLOAD" -> [sm EXCEPT !.downloaded = @ + 1]
           [] OTHER -> [sm EXCEPT !.conflicts = @ + 1]

\* the summary after the pass of sync_scan_all for one title
scan_count(sm, rc, act) ==
    IF rc # 0 THEN [sm EXCEPT !.failed = @ + 1]
    ELSE CASE act = "UP_TO_DATE" -> [sm EXCEPT !.up_to_date = @ + 1]
           [] act = "UPLOAD" -> [sm EXCEPT !.uploaded = @ + 1]
           [] act = "DOWNLOAD" -> [sm EXCEPT !.downloaded = @ + 1]
           [] OTHER -> [sm EXCEPT !.conflicts = @ + 1]

sync_scan_all_begin ==
    /\ client = "ds" /\ pc = "idle"
    /\ pc' = "ds_scan" /\ i' = 1 /\ summary' = NewSummary
    /\ UNCHANGED <<client, titles, state, local, store, server, hash_cache, json,
                   plan, arr, ids, ret, log, last, decideVars, codecVars>>

\* one pass of the loop of sync_scan_all
sync_scan_all_title ==
    /\ pc = "ds_scan" /\ i <= Len(state)
    /\ \E r \in {"ok", "fail"}, net \in {"ok", "fail"}, ts \in 0..1 :
        \E dec \in {ds_sync_decide(state[i], local, store,
                         network_get_save_info_ext(server, state[i].title_id, net, ts),
                         r)} :
          /\ state' = [state EXCEPT ![i] =
                          [dec.title EXCEPT
                              !.scanned = TRUE,
                              !.scan_result = IF dec.rc # 0 THEN "CONFLICT"
                                              ELSE dec.action]]
          /\ summary' = scan_count(summary, dec.rc, dec.action)
          /\ log' = Append(log, [op |-> "decide", id |-> state[i].title_id])
    /\ i' = i + 1
    /\ UNCHANGED <<client, titles, local, store, server, pc, hash_cache, json,
                   plan, arr, ids, ret, last, decideVars, codecVars>>

sync_scan_all_return ==
    /\ pc = "ds_scan" /\ i > Len(state)
    /\ pc' = "done" /\ ret' = "0"
    /\ UNCHANGED <<client, titles, state, local, store, server, i, hash_cache,
                   json, plan, arr, ids, summary, log, last, decideVars, codecVars>>

\* the operations of both clients
NextOps ==
    \/ Next
    \/ \E j \in 1..Len(state) : \E act \in SyncActions : ds_execute(j, act)
    \/ sync_scan_all_begin
    \/ sync_scan_all_title
    \/ sync_scan_all_return

SpecOps == Init /\ [][NextOps]_vars

\* ---- C38
\* 3DS: the conflict list is final (the auto-resolution loop is over)
PastResolve ==
    /\ client = "3ds"
    /\ \/ pc \in {"upload", "download", "server_only"}
       \/ pc = "done" /\ ret = "true"
RemainsConflict(id) == PastResolve /\ \E n \in 1..Len(ids[4]) : ids[4][n] = id

\* 3DS: a title left in the conflict list has no transfer in the batch, and
\* the titles left there are what summary.conflicts counts
ConflictNotTransferred ==
    /\ \A id \in AllIds :
          RemainsConflict(id) =>
              \A n \in 1..Len(log) :
                  log[n].id = id => log[n].op \notin {"upload", "download"}
    /\ PastResolve => summary.conflicts = Len(ids[4])

\* 3DS: no step of the batch changes the save or the last-synced hash of a
\* title left in the conflict list
ConflictKept3DS ==
    /\ (client = "3ds" /\ pc \in {"hash", "parse", "resolve"})
          => UNCHANGED <<local, store, server>>
    /\ (client = "3ds" /\ pc \in {"upload", "download", "server_only"})
          => \A id \in AllIds :
                 RemainsConflict(id) =>
                     /\ local'[id] = local[id]
                     /\ store'[id] = store[id]
                     /\ ids'[4] = ids[4]

\* DS: the pass of sync_all that counts a conflict does nothing else
ConflictKeptDS ==
    (pc = "ds_loop" /\ summary'.conflicts # summary.conflicts)
        => /\ summary' = [summary EXCEPT !.conflicts = @ + 1]
           /\ UNCHANGED <<local, store, server>>
           /\ log' = Append(log, [op |-> "decide", id |-> state[i].title_id])

\* DS: sync_execute with SYNC_CONFLICT
ExecuteConflict ==
    (pc = "idle" /\ last' # last /\ last'.op = "execute" /\ last'.act = "CONFLICT")
        => /\ ret' = "-1"
           /\ UNCHANGED <<local, store, server, state, summary>>

\* C38: for a server plan that partitions the titles into its lists, a batch
\* sync never uploads and never overwrites the local save of a title that
\* remains classified as CONFLICT: the title is only counted in
\* summary.conflicts, its save and its last-synced hash are unchanged by the
\* batch; and sync_execute called with action CONFLICT returns -1 without
\* any transfer or state change.
C38_ConflictUntouched ==
    /\ []ConflictNotTransferred
    /\ [][ConflictKept3DS]_vars
    /\ [][ConflictKeptDS]_vars
    /\ [][ExecuteConflict]_vars

\* a batch of the 3DS client is over, one title was left in conflict with
\* saves on both sides, another title was transferred
C38_Witness ==
    /\ client = "3ds" /\ pc = "done" /\ ret = "true"
    /\ summary.conflicts = 1 /\ Len(ids[4]) = 1
    /\ local[ids[4][1]] # <<>> /\ server[ids[4][1]] # {}
    /\ last.op \in {"upload", "download"} /\ last.moved

\* sync_execute has returned -1 for SYNC_CONFLICT
C38_ExecutedConflict ==
    /\ client = "ds" /\ pc = "done" /\ ret = "-1"
    /\ last.op = "execute" /\ last.act = "CONFLICT"
    /\ local[last.id] # <<>> /\ server[last.id] # {}

\* a pass of the DS batch has counted a conflict
C38_CountedDS == client = "ds" /\ pc = "ds_loop" /\ summary.conflicts > 0

\* ---- C40
Counters == {"uploaded", "downloaded", "up_to_date", "conflicts", "failed"}
CounterOf(act) ==
    CASE act = "UP_TO_DATE" -> "up_to_date"
      [] act = "UPLOAD" -> "uploaded"
      [] act = "DOWNLOAD" -> "downloaded"
      [] OTHER -> "conflicts"
\* the counter c alone has gone up, by one
OnlyCounter(c) ==
    /\ summary'[c] = summary[c] + 1
    /\ \A o \in Counters \ {c} : summary'[o] = summary[o]

\* one pass of sync_scan_all: the title is marked scanned with the action
\* sync_decide gave for it, or with CONFLICT if sync_decide failed, and the
\* counter of that outcome alone goes up
ScanPass ==
    (pc = "ds_scan" /\ i' = i + 1) =>
        /\ state'[i].scanned
        /\ \E r \in {"ok", "fail"}, net \in {"ok", "fail"}, ts \in 0..1 :
             \E dec \in {ds_sync_decide(state[i], local, store,
                            network_get_save_info_ext(server, state[i].title_id,
                                                      net, ts), r)} :
                IF dec.rc # 0
                THEN state'[i].scan_result = "CONFLICT" /\ OnlyCounter("failed")
                ELSE /\ state'[i].scan_result = dec.action
                     /\ OnlyCounter(CounterOf(dec.action))
        /\ \A n \in 1..Len(state) : n # i => state'[n] = state[n]

\* no step of sync_scan_all transfers or writes anything
ScanFrame ==
    (pc = "ds_scan") =>
        /\ UNCHANGED <<local, store, server, last>>
        /\ \A n \in 1..Len(log') : log'[n].op \notin {"upload", "download", "execute"}

\* when sync_scan_all returns every title is scanned and counted once
ScanReturn ==
    (pc = "ds_scan" /\ pc' = "done") =>
        /\ \A n \in 1..Len(state) : state[n].scanned
        /\ summary.uploaded + summary.downloaded + summary.up_to_date
              + summary.conflicts + summary.failed = Len(state)

\* C40: sync_scan_all only classifies: for every title it sets scanned and
\* records the decided action (CONFLICT when the decision failed), adds one
\* to exactly one summary counter per title, issues no upload and no
\* download, and writes neither a save file nor the last-synced state store.
C40_ScanOnlyClassifies ==
    [][ScanPass]_vars /\ [][ScanFrame]_vars /\ [][ScanReturn]_vars

\* a scan has returned: one decision failed, one title is in conflict
C40_Witness ==
    /\ client = "ds" /\ pc = "done" /\ ret = "0"
    /\ \A n \in 1..Len(state) : state[n].scanned
    /\ summary.failed = 1 /\ summary.conflicts = 1
    /\ \A n \in 1..Len(state) : state[n].scan_result = "CONFLICT"

\* a scan has returned with a title to upload and a title to download
C40_WitnessTransfersDue ==
    /\ client = "ds" /\ pc = "done" /\ ret = "0"
    /\ \A n \in 1..Len(state) : state[n].scanned
    /\ summary.uploaded = 1 /\ summary.downloaded = 1
    /\ last.op = "-"

\* --------------------------------- 3DS main: the conflict flags of the list
MarkMax == 9        \* longest title list of the flag study

\* the auto-resolution loop of sync_all run to its end from index n
RECURSIVE resolve_all(_, _, _)
resolve_all(ts, lists, n) ==
    IF n > Len(lists[4]) THEN lists
    ELSE resolve_all(ts, resolve_conflict(ts, lists, n).ids,
                     resolve_conflict(ts, lists, n).i)

\* what sync_all records of the conflicts in its summary
conflict_summary(lists) ==
    [NewSummary EXCEPT !.conflicts = Len(lists[4]),
                       !.conflict_titles = SubSeqTo(lists[4], MAX_CONFLICT_DISPLAY)]

\* main: "Mark conflicting titles in our list"
mark_conflicts(ts, sm) ==
    [j \in 1..Len(ts) |->
        IF \E n \in 1..Len(sm.conflict_titles) :
               /\ n <= sm.conflicts /\ n <= MAX_CONFLICT_DISPLAY
               /\ find_title(ts, sm.conflict_titles[n]) = j
        THEN [ts[j] EXCEPT !.in_conflict = TRUE]
        ELSE ts[j]]

\* main: "Auto-mark conflicting titles for batch resolve"
auto_mark(ts, sm) ==
    IF sm.conflicts > 0
    THEN [j \in 1..Len(ts) |->
             IF ts[j].in_conflict THEN [ts[j] EXCEPT !.marked = TRUE] ELSE ts[j]]
    ELSE ts

count_marked(ts) == Cardinality({j \in 1..Len(ts) : ts[j].marked})
clear_marks(ts) == [j \in 1..Len(ts) |-> [ts[j] EXCEPT !.marked = FALSE]]

\* the title lists of the study: every title has a save but perhaps the
\* first; the flags are all clear or left over from an earlier batch
MarkLists ==
    {[j \in 1..n |->
         [title_id_hex |-> j, has_save_data |-> (j > 1 \/ first),
          in_conflict |-> stale, marked |-> (stale /\ j = 1)]] :
        n \in 0..MarkMax, first \in BOOLEAN, stale \in BOOLEAN}

\* the conflict list of a plan for the titles: some of them, in order
RECURSIVE IdSeq(_)
IdSeq(S) ==
    IF S = {} THEN <<>>
    ELSE LET m == CHOOSE x \in S : \A y \in S : x <= y
         IN  <<m>> \o IdSeq(S \ {m})

InitMark ==
    /\ client = "3ds"
    /\ titles \in MarkLists
    /\ \E S \in SUBSET (1..Len(titles)) :
          arg = [op |-> "flags", conflict |-> IdSeq(S)]
    /\ wire = NoWire /\ out = NoOut
    /\ details = NoDecision /\ action = "-"
    /\ state = <<>>
    /\ local = [id \in AllIds |-> <<>>]
    /\ store = [id \in AllIds |-> EMPTY_STR]
    /\ server = [id \in AllIds |-> {}]
    /\ pc = "idle" /\ i = 1
    /\ hash_cache = <<>> /\ json = <<>> /\ plan = <<>> /\ arr = 0
    /\ ids = NoIds /\ summary = NewSummary /\ ret = "-" /\ log = <<>>
    /\ last = [op |-> "-"]

\* main, KEY_X: clear the flags, run sync_all, flag and mark the conflicts.
\* sync_all returns true with the summary of its conflict list, or false.
PressX ==
    /\ arg.op = "flags" /\ out = NoOut /\ Len(titles) > 0
    /\ \E ok \in BOOLEAN :
       \E lists \in {resolve_all(titles, [NoIds EXCEPT ![4] = arg.conflict], 1)} :
          LET cleared == [j \in 1..Len(titles) |->
                             [titles[j] EXCEPT !.in_conflict = FALSE]]
              sm == conflict_summary(lists)
          IN  /\ titles' = IF ok THEN auto_mark(mark_conflicts(cleared, sm), sm)
                           ELSE cleared
              /\ summary' = IF ok THEN sm ELSE summary
              /\ ids' = IF ok THEN lists ELSE ids
              /\ ret' = IF ok THEN "true" ELSE "false"
              /\ out' = [fate |-> "synced", ok |-> ok, done |-> {}]
    /\ UNCHANGED <<arg, wire, client, state, local, store, server, pc, i,
                   hash_cache, json, plan, arr, log, last, decideVars>>

\* main, KEY_A or KEY_B after the batch: sync_title or sync_download_title
\* for every marked title, or for the selected one if none is marked; bad
\* is the title whose transfer fails (0: none), go the user's confirmation
PressAB ==
    /\ arg.op = "flags" /\ out # NoOut /\ out.fate = "synced"
    /\ \E sel \in 1..Len(titles), bad \in 0..Len(titles), go \in BOOLEAN :
          LET todo == IF count_marked(titles) > 0
                      THEN {j \in 1..Len(titles) : titles[j].marked}
                      ELSE {sel}
              done == IF go THEN todo \ {bad} ELSE {}
              flagged == [j \in 1..Len(titles) |->
                             IF j \in done
                             THEN [titles[j] EXCEPT !.in_conflict = FALSE]
                             ELSE titles[j]]
          IN  /\ titles' = IF go /\ count_marked(titles) > 0
                           THEN clear_marks(flagged) ELSE flagged
              /\ out' = [fate |-> "manual", ok |-> out.ok, done |-> done]
    /\ UNCHANGED <<arg, wire, client, state, local, store, server, pc, i,
                   hash_cache, json, plan, arr, ids, summary, ret, log, last,
                   decideVars>>

NextMark == PressX \/ PressAB

SpecMark == InitMark /\ [][NextMark]_vars

\* ---- C39
BatchReported == out # NoOut /\ out.fate = "synced" /\ out.ok
\* the titles of the list the batch left in conflict
InConflict == {j \in 1..Len(titles) : \E n \in 1..Len(ids[4]) : ids[4][n] = j}

\* C39: after a batch sync that reports k conflicts, every one of the k
\* conflicting titles of the local title list is flagged in_conflict and
\* marked for batch resolve, for every k, and no title that is not in
\* conflict is flagged; a later successful manual upload or download of a
\* title clears its in_conflict flag.
C39_ConflictsFlagged ==
    /\ BatchReported =>
          /\ summary.conflicts = Cardinality(InConflict)
          /\ \A j \in InConflict : titles[j].in_conflict /\ titles[j].marked
          /\ \A j \in 1..Len(titles) : titles[j].in_conflict => j \in InConflict
    /\ (out # NoOut /\ out.fate = "manual") =>
          \A j \in out.done : ~titles[j].in_conflict

\* the same with the flags limited to the first MAX_CONFLICT_DISPLAY
\* conflicts of the summary
C39_FlaggedUpToDisplay ==
    /\ BatchReported =>
          /\ summary.conflicts = Cardinality(InConflict)
          /\ \A n \in 1..Len(ids[4]) :
                n <= MAX_CONFLICT_DISPLAY =>
                    titles[ids[4][n]].in_conflict /\ titles[ids[4][n]].marked
          /\ \A n \in 1..Len(ids[4]) :
                n > MAX_CONFLICT_DISPLAY => ~titles[ids[4][n]].in_conflict
          /\ \A j \in 1..Len(titles) : titles[j].in_conflict => j \in InConflict
    /\ (out # NoOut /\ out.fate = "manual") =>
          \A j \in out.done : ~titles[j].in_conflict

\* nine conflicts reported, the ninth title neither flagged nor marked
C39_NinthUnflagged ==
    /\ BatchReported /\ summary.conflicts = 9
    /\ ~titles[9].in_conflict /\ ~titles[9].marked
    /\ titles[8].in_conflict /\ titles[8].marked

\* a flagged title was resolved by hand and its flag is clear
C39_Resolved ==
    /\ out # NoOut /\ out.fate = "manual" /\ summary.conflicts = 2
    /\ out.done = {1} /\ ~titles[1].in_conflict /\ titles[2].in_conflict

====
